---- MODULE Spec2Model ----
(***************************************************************************)
(* Stage-progression state machine of the consultant agent: the stage      *)
(* tools (app/agents/tools.py), the per-session connection registry        *)
(* (app/connection_manager.py), the stage-transition recorder              *)
(* (app/callbacks/stage_transition.py) and the resumption-flag clearing of *)
(* the websocket handler (app/fast_api_app.py).                            *)
(*                                                                         *)
(* Session state is a Python dict: a function whose DOMAIN is the set of   *)
(* keys that are present.  Texts are strings; numbers are rendered digit   *)
(* by digit as str() does.                                                 *)
(***************************************************************************)
EXTENDS Integers, Sequences, FiniteSets, TLC

VARIABLES
    state,                 \* tool_context.state / callback_context.state of the session
    ret,                   \* what the tool call that led here returned (NoReturn if none ran)
    tasks,                 \* coroutines scheduled on the event loop by loop.create_task
    active_connections,    \* ConnectionManager.active_connections: session id -> websocket
    pushed,                \* what send_json did in the step that led here (NoPush if none ran)
    has_cleared_resuming,  \* AgentSession.has_cleared_resuming
    handlers,              \* per websocket: where its AgentSession.run_agent stands
    agent_session,         \* the AgentSession of the session's connection: session set, loop running
    store,                 \* the session service: the state of each stored session, by session id
    startup,               \* consultant.py: STAGES_CONFIG as loaded, and what get_consultant_agent gave
    conn,                  \* one websocket's AgentSession, field by field, and its client
    rate_limit_store,      \* fast_api_app.rate_limit_store: client ip -> accepted timestamps
    current_time,          \* the clock read by websocket_endpoint, in seconds
    attempts,              \* history: per client ip, the time and outcome of each attempt
    accepted,              \* history: per asserted stage, accepted advances so far (saturating)
    acceptedSinceFinalize  \* history: the same, counted since the last finalize_discovery

vars == <<state, ret, tasks, active_connections, pushed, has_cleared_resuming,
          handlers, startup, store, agent_session, conn, rate_limit_store,
          current_time, attempts, accepted, acceptedSinceFinalize>>

----------------------------------------------------------------------------
(* Bounds of the model *)

\* advance requests assert a stage in -1 .. MaxStage-1, so the index stays <= MaxStage
MaxStage == 8
\* at most this many push coroutines wait on the event loop
MaxTasks == 1
\* the recorder runs while turn_count is below this
MaxTurns == 1
\* the same for the recorder on its own
MaxRecordings == 3
\* the longest stage configuration
MaxConfigStages == 2
\* with two sessions side by side, each advances while its index is below this
MaxSessionStage == 2
\* a connection's message history is kept for this many messages
MaxMessages == 3
\* the endpoint's clock runs up to this many seconds
MaxTime == 121
\* the clients make at most this many connection attempts in all
MaxAttempts == 13

(* Program constants *)

\* the terminal stage index written by finalize_discovery
TerminalStage == 6

SessionIds == {"s1"}
\* the client addresses of the websocket endpoint
ClientIps == {"ip1", "ip2"}
\* "" stands for a tool context without a session or with an empty session id
NoSession == ""
WebSockets == {"wsA", "wsB"}
StageArgs == (0 - 1) .. (MaxStage - 1)

----------------------------------------------------------------------------
(* Python dict and str helpers *)

Get(d, k, default) == IF k \in DOMAIN d THEN d[k] ELSE default

Put(d, k, v) == [x \in (DOMAIN d) \cup {k} |-> IF x = k THEN v ELSE d[x]]

Del(d, k) == [x \in (DOMAIN d) \ {k} |-> d[x]]

EmptyDict == [x \in {} |-> 0]

Digits == <<"0", "1", "2", "3", "4", "5", "6", "7", "8", "9">>

RECURSIVE StrNat(_)
StrNat(n) == IF n < 10 THEN Digits[n + 1]
             ELSE StrNat(n \div 10) \o Digits[(n % 10) + 1]

\* str(n) / f"{n}" of an int
Str(n) == IF n < 0 THEN "-" \o StrNat(0 - n) ELSE StrNat(n)

\* int(v) of a value that is an int already
Int_(v) == v

\* Python's `part in text` on strings
Contains(text, part) ==
    LET n == Len(part)
        first == SubSeq(part, 1, 1)
    IN  \/ n = 0
        \/ \E i \in 1 .. (Len(text) - n + 1) :
               /\ SubSeq(text, i, i) = first
               /\ SubSeq(text, i, i + n - 1) = part

----------------------------------------------------------------------------
(* app/agents/tools.py *)

ResumptionNote ==
    "SYSTEM_NOTE: Resumption in progress. Please ignore any previous completion signals from history. Introduce yourself to the user and wait for their input before completing this stage."

\* the mismatch note with its two stage numbers exchanged
MismatchNote_exchanged(stage_index, current_stage) ==
    "SYSTEM_NOTE: You are attempting to complete Stage " \o Str(current_stage)
    \o ", but the project is already at Stage " \o Str(stage_index)
    \o ". Please wait for the user instructions or just say 'I am ready when you are'."

MismatchNote(stage_index, current_stage) ==
    "SYSTEM_NOTE: You are attempting to complete Stage " \o Str(stage_index)
    \o ", but the project is already at Stage " \o Str(current_stage)
    \o ". Please wait for the user instructions or just say 'I am ready when you are'."

\* the advanced directive formatted after the increment from the new index alone
AdvancedNote_from_new_index(stage_index, next_stage) ==
    "SYSTEM_NOTE: Stage " \o Str(next_stage) \o " advanced to " \o Str(next_stage + 1)
    \o ". ROUTER ACTION REQUIRED: Immediately Transfer to the Stage " \o Str(next_stage + 1)
    \o " agent and force them to introduce themselves. Do not wait for user input."

AdvancedNote(stage_index, next_stage) ==
    "SYSTEM_NOTE: Stage " \o Str(stage_index) \o " advanced to " \o Str(next_stage)
    \o ". ROUTER ACTION REQUIRED: Immediately Transfer to the Stage " \o Str(next_stage)
    \o " agent and force them to introduce themselves. Do not wait for user input."

\* the text finalize_discovery returns, after its leading check-mark character
FinalizeNote == "Discovery complete! Triggering BRD generation..."

\* manager.send_stage_update(session_id, stage_index), not yet run
PushTask(session_id, stage_index) ==
    [session_id |-> session_id, stage_index |-> stage_index]

\* the trigger block without its outer try/except: an exception leaves it
frontend_trigger_unprotected(session_id, next_stage, loop_running, sched_fails) ==
    IF session_id # NoSession
    THEN IF sched_fails
         THEN [tasks |-> <<>>, raised |-> TRUE]
         ELSE IF loop_running
              THEN [tasks |-> <<PushTask(session_id, next_stage)>>, raised |-> FALSE]
              ELSE [tasks |-> <<>>, raised |-> FALSE]
    ELSE [tasks |-> <<>>, raised |-> FALSE]

\* the trigger block pushing the stage that was completed instead of the new index
frontend_trigger_completed_stage(session_id, next_stage, loop_running, sched_fails) ==
    IF session_id # NoSession
    THEN IF sched_fails
         THEN [tasks |-> <<>>, raised |-> FALSE]
         ELSE IF loop_running
              THEN [tasks |-> <<PushTask(session_id, next_stage - 1)>>, raised |-> FALSE]
              ELSE [tasks |-> <<>>, raised |-> FALSE]
    ELSE [tasks |-> <<>>, raised |-> FALSE]

\* The "DIRECT FRONTEND TRIGGER" block of advance_stage: which coroutines it schedules
\* and whether an exception leaves the block.  sched_fails: the import of the manager
\* or loop.create_task raises.
frontend_trigger(session_id, next_stage, loop_running, sched_fails) ==
    IF session_id # NoSession
    THEN IF sched_fails
         THEN [tasks |-> <<>>, raised |-> FALSE]       \* except Exception: logged
         ELSE IF loop_running
              THEN [tasks |-> <<PushTask(session_id, next_stage)>>, raised |-> FALSE]
              ELSE [tasks |-> <<>>, raised |-> FALSE]   \* get_running_loop: RuntimeError
    ELSE [tasks |-> <<>>, raised |-> FALSE]

\* advance_stage trusting the caller: no comparison with the persisted index, the new
\* index is the asserted stage plus one
advance_stage_trusting(st, session_id, stage_index, loop_running, sched_fails) ==
    IF Get(st, "is_resuming", FALSE)
    THEN [state |-> st, msg |-> ResumptionNote, tasks |-> <<>>, raised |-> FALSE]
    ELSE LET next_stage == stage_index + 1
             st2 == Put(st, "current_stage_index", next_stage)
             trig == frontend_trigger(session_id, next_stage, loop_running, sched_fails)
         IN  [state |-> st2, msg |-> AdvancedNote(stage_index, next_stage),
              tasks |-> trig.tasks, raised |-> FALSE]

\* advance_stage without the stage comparison: every call outside resumption increments
advance_stage_uncompared(st, session_id, stage_index, loop_running, sched_fails) ==
    LET current_stage == Int_(Get(st, "current_stage_index", 0))
    IN  IF Get(st, "is_resuming", FALSE)
        THEN [state |-> st, msg |-> ResumptionNote, tasks |-> <<>>, raised |-> FALSE]
        ELSE LET next_stage == current_stage + 1
                 st2 == Put(st, "current_stage_index", next_stage)
                 trig == frontend_trigger(session_id, next_stage, loop_running, sched_fails)
             IN  [state |-> st2, msg |-> AdvancedNote(stage_index, next_stage),
                  tasks |-> trig.tasks, raised |-> FALSE]

\* advance_stage with the resumption guard placed after the increment
advance_stage_late_guard(st, session_id, stage_index, loop_running, sched_fails) ==
    LET current_stage == Int_(Get(st, "current_stage_index", 0))
    IN  IF current_stage # stage_index
        THEN IF Get(st, "is_resuming", FALSE)
             THEN [state |-> st, msg |-> ResumptionNote, tasks |-> <<>>, raised |-> FALSE]
             ELSE [state |-> st, msg |-> MismatchNote(stage_index, current_stage),
                   tasks |-> <<>>, raised |-> FALSE]
        ELSE LET next_stage == current_stage + 1
                 st2 == Put(st, "current_stage_index", next_stage)
                 trig == frontend_trigger(session_id, next_stage, loop_running, sched_fails)
             IN  IF Get(st, "is_resuming", FALSE)
                 THEN [state |-> st2, msg |-> ResumptionNote, tasks |-> <<>>,
                       raised |-> FALSE]
                 ELSE [state |-> st2, msg |-> AdvancedNote(stage_index, next_stage),
                       tasks |-> trig.tasks, raised |-> FALSE]

\* advance_stage with the stage comparison made before the resumption guard
advance_stage_compare_first(st, session_id, stage_index, loop_running, sched_fails) ==
    LET current_stage == Int_(Get(st, "current_stage_index", 0))
    IN  IF current_stage # stage_index
        THEN [state |-> st, msg |-> MismatchNote(stage_index, current_stage),
              tasks |-> <<>>, raised |-> FALSE]
        ELSE IF Get(st, "is_resuming", FALSE)
        THEN [state |-> st, msg |-> ResumptionNote, tasks |-> <<>>, raised |-> FALSE]
        ELSE LET next_stage == current_stage + 1
                 st2 == Put(st, "current_stage_index", next_stage)
                 trig == frontend_trigger(session_id, next_stage, loop_running, sched_fails)
             IN  [state |-> st2, msg |-> AdvancedNote(stage_index, next_stage),
                  tasks |-> trig.tasks, raised |-> FALSE]

\* advance_stage(tool_context, stage_index): the new state, the returned text, the
\* coroutines scheduled, and whether the call raised instead of returning
advance_stage(st, session_id, stage_index, loop_running, sched_fails) ==
    LET raw_stage == Get(st, "current_stage_index", 0)
        current_stage == Int_(raw_stage)
    IN  IF Get(st, "is_resuming", FALSE)
        THEN [state |-> st, msg |-> ResumptionNote, tasks |-> <<>>, raised |-> FALSE]
        ELSE IF current_stage # stage_index
        THEN [state |-> st, msg |-> MismatchNote(stage_index, current_stage),
              tasks |-> <<>>, raised |-> FALSE]
        ELSE LET next_stage == current_stage + 1
                 st2 == Put(st, "current_stage_index", next_stage)
                 trig == frontend_trigger(session_id, next_stage, loop_running, sched_fails)
             IN  IF trig.raised
                 THEN [state |-> st2, msg |-> "", tasks |-> trig.tasks, raised |-> TRUE]
                 ELSE [state |-> st2, msg |-> AdvancedNote(stage_index, next_stage),
                       tasks |-> trig.tasks, raised |-> FALSE]

complete_program_explanation(st, sid, loop_running, sched_fails) ==
    advance_stage(st, sid, 0, loop_running, sched_fails)

complete_payment_structure(st, sid, loop_running, sched_fails) ==
    advance_stage(st, sid, 1, loop_running, sched_fails)

complete_current_workflow(st, sid, loop_running, sched_fails) ==
    advance_stage(st, sid, 2, loop_running, sched_fails)

complete_problem_statement(st, sid, loop_running, sched_fails) ==
    advance_stage(st, sid, 3, loop_running, sched_fails)

complete_solution_vision(st, sid, loop_running, sched_fails) ==
    advance_stage(st, sid, 4, loop_running, sched_fails)

complete_success_criteria(st, sid, loop_running, sched_fails) ==
    advance_stage(st, sid, 5, loop_running, sched_fails)

\* get_current_stage storing 0 on every call instead of only when the key is absent
get_current_stage_resetting(st) ==
    [state |-> Put(st, "current_stage_index", 0),
     msg |-> Str(Get(st, "current_stage_index", 0))]

get_current_stage(st) ==
    LET idx == Get(st, "current_stage_index", 0)
    IN  [state |-> IF "current_stage_index" \notin DOMAIN st
                   THEN Put(st, "current_stage_index", 0) ELSE st,
         msg |-> Str(idx)]

\* finalize_discovery that leaves an index already past the terminal value alone
finalize_discovery_forward_only(st) ==
    [state |-> Put(Put(Put(st, "workflow_status", "COMPLETED"),
                       "discovery_completed", TRUE),
                   "current_stage_index",
                   IF Get(st, "current_stage_index", 0) > TerminalStage
                   THEN Get(st, "current_stage_index", 0) ELSE TerminalStage),
     msg |-> FinalizeNote]

\* finalize_discovery ending the resumption as well
finalize_discovery_ending_resumption(st) ==
    [state |-> Put(Put(Put(Put(st, "workflow_status", "COMPLETED"),
                           "discovery_completed", TRUE),
                       "current_stage_index", TerminalStage),
                   "is_resuming", FALSE),
     msg |-> FinalizeNote]

finalize_discovery(st) ==
    [state |-> Put(Put(Put(st, "workflow_status", "COMPLETED"),
                       "discovery_completed", TRUE),
                   "current_stage_index", TerminalStage),
     msg |-> FinalizeNote]

----------------------------------------------------------------------------
(* app/connection_manager.py *)

\* connect that keeps the handle already registered for the session id
connect_keep_first(conns, session_id, websocket) ==
    IF session_id \in DOMAIN conns THEN conns ELSE Put(conns, session_id, websocket)

connect(conns, session_id, websocket) == Put(conns, session_id, websocket)

\* disconnect that empties the registry
disconnect_all(conns, session_id) == EmptyDict

disconnect(conns, session_id) ==
    IF session_id \in DOMAIN conns THEN Del(conns, session_id) ELSE conns

\* send_json indexing the registry without the membership test: KeyError when absent
send_json_unchecked(conns, session_id, message, send_ok) ==
    IF session_id \in DOMAIN conns
    THEN LET websocket == conns[session_id]
         IN  [attempts |-> <<websocket>>,
              delivered |-> IF send_ok THEN <<[websocket |-> websocket, message |-> message]>>
                            ELSE <<>>,
              raised |-> FALSE]
    ELSE [attempts |-> <<>>, delivered |-> <<>>, raised |-> TRUE]

\* send_json without the try/except around the websocket send
send_json_uncaught(conns, session_id, message, send_ok) ==
    IF session_id \in DOMAIN conns
    THEN LET websocket == conns[session_id]
         IN  [attempts |-> <<websocket>>,
              delivered |-> IF send_ok THEN <<[websocket |-> websocket, message |-> message]>>
                            ELSE <<>>,
              raised |-> ~send_ok]
    ELSE [attempts |-> <<>>, delivered |-> <<>>, raised |-> FALSE]

\* send_json sending the message on every registered connection
send_json_broadcast(conns, session_id, message, send_ok) ==
    LET ids == DOMAIN conns
        RECURSIVE All(_)
        All(rest) == IF rest = {} THEN <<>>
                     ELSE LET x == CHOOSE x \in rest : TRUE
                          IN  <<conns[x]>> \o All(rest \ {x})
        targets == All(ids)
    IN  [attempts |-> targets,
         delivered |-> IF send_ok
                       THEN [i \in 1..Len(targets) |-> [websocket |-> targets[i],
                                                        message |-> message]]
                       ELSE <<>>,
         raised |-> FALSE]

\* send_json falling back to some registered connection when the session has none
send_json_any_connection(conns, session_id, message, send_ok) ==
    IF conns = EmptyDict
    THEN [attempts |-> <<>>, delivered |-> <<>>, raised |-> FALSE]
    ELSE LET websocket == IF session_id \in DOMAIN conns THEN conns[session_id]
                          ELSE conns[CHOOSE x \in DOMAIN conns : TRUE]
         IN  [attempts |-> <<websocket>>,
              delivered |-> IF send_ok THEN <<[websocket |-> websocket, message |-> message]>>
                            ELSE <<>>,
              raised |-> FALSE]

\* send_json(session_id, message): the websocket sends attempted (at most one), the
\* message that reached the transport, and whether the call raised.  send_ok: the
\* transport's websocket.send_json returns rather than raising.
send_json(conns, session_id, message, send_ok) ==
    IF session_id \in DOMAIN conns
    THEN LET websocket == conns[session_id]
         IN  [attempts |-> <<websocket>>,
              delivered |-> IF send_ok THEN <<[websocket |-> websocket, message |-> message]>>
                            ELSE <<>>,
              raised |-> FALSE]
    ELSE [attempts |-> <<>>, delivered |-> <<>>, raised |-> FALSE]

StageUpdate(stage_index) == [type |-> "stage_update", current_stage |-> stage_index]

send_stage_update(conns, session_id, stage_index, send_ok) ==
    send_json(conns, session_id, StageUpdate(stage_index), send_ok)

----------------------------------------------------------------------------
(* Python values and str methods used by the recorder *)

\* a value stored under a state key: a str, or something that is not text
PyStr(text) == [t |-> "str", v |-> text]

\* an int, kept by its repr
PyInt(n) == [t |-> "int", v |-> Str(n)]

\* bool(x)
Truthy(x) == IF x.t = "str" THEN x.v # "" ELSE x.v # "0"

\* dict.update
\* extracted_data replaced by the new facts instead of updated with them
Update_replacing(d, other) == other

Update(d, other) ==
    [k \in (DOMAIN d) \cup (DOMAIN other) |-> IF k \in DOMAIN other THEN other[k] ELSE d[k]]

UpperCase == "ABCDEFGHIJKLMNOPQRSTUVWXYZ"

LowerCase == "abcdefghijklmnopqrstuvwxyz"

LowerChar(c) ==
    IF \E i \in 1..26 : SubSeq(UpperCase, i, i) = c
    THEN LET i == CHOOSE i \in 1..26 : SubSeq(UpperCase, i, i) = c
         IN  SubSeq(LowerCase, i, i)
    ELSE c

\* str.lower
RECURSIVE Lower(_)
Lower(text) ==
    IF text = "" THEN ""
    ELSE IF Len(text) = 1 THEN LowerChar(text)
    ELSE LET half == Len(text) \div 2
         IN  Lower(SubSeq(text, 1, half)) \o Lower(SubSeq(text, half + 1, Len(text)))

Whitespace == {" ", "\n", "\t", "\r", "\f"}

RECURSIVE LStrip(_)
LStrip(text) == IF text # "" /\ Head(text) \in Whitespace THEN LStrip(Tail(text)) ELSE text

RECURSIVE RStrip(_)
RStrip(text) ==
    IF text # "" /\ SubSeq(text, Len(text), Len(text)) \in Whitespace
    THEN RStrip(SubSeq(text, 1, Len(text) - 1)) ELSE text

\* str.strip
Strip(text) == RStrip(LStrip(text))

\* str.split(sep) for a one-character sep: the pieces between the separators
RECURSIVE Split(_, _)
Split(text, sep) ==
    IF \E i \in 1..Len(text) : SubSeq(text, i, i) = sep
    THEN LET i == CHOOSE i \in 1..Len(text) :
                     /\ SubSeq(text, i, i) = sep
                     /\ \A k \in 1..(i - 1) : SubSeq(text, k, k) # sep
         IN  <<SubSeq(text, 1, i - 1)>> \o Split(SubSeq(text, i + 1, Len(text)), sep)
    ELSE <<text>>

\* str.replace(old, "")
RECURSIVE Remove(_, _)
Remove(text, old) ==
    IF Len(text) < Len(old) THEN text
    ELSE IF SubSeq(text, 1, Len(old)) = old
         THEN Remove(SubSeq(text, Len(old) + 1, Len(text)), old)
         ELSE Head(text) \o Remove(Tail(text), old)

\* text[:n] that keeps the whole text
Truncate_keeping(text, n) == text

\* text[:n]
Truncate(text, n) == SubSeq(text, 1, IF Len(text) < n THEN Len(text) ELSE n)

\* sum(1 for keyword in keywords if keyword in text)
CountPresent(keywords, text) ==
    Cardinality({i \in 1..Len(keywords) : Contains(text, keywords[i])})

\* datetime.isoformat() of the instant numbered t
isoformat(t) == "2025-01-01T00:00:0" \o Str(t)

----------------------------------------------------------------------------
(* app/callbacks/stage_transition.py *)

SummaryLength == 150

output_key_map ==
    [CompanyContext |-> "company_context",
     ProjectOverview |-> "project_overview",
     CurrentWorkflow |-> "current_workflow",
     ProblemStatement |-> "problem_statement",
     SolutionVision |-> "solution_vision",
     SuccessCriteria |-> "success_criteria",
     GenerationSignoff |-> "generation_signoff"]

\* an initialization that sets workflow_status and turn_count whether present or not
_initialize_state_structure_resetting(st) ==
    LET s1 == IF "extracted_data" \notin DOMAIN st
              THEN Put(st, "extracted_data", EmptyDict) ELSE st
        s2 == IF "stage_completion" \notin DOMAIN s1
              THEN Put(s1, "stage_completion", EmptyDict) ELSE s1
    IN  Put(Put(s2, "workflow_status", "IN_PROGRESS"), "turn_count", 0)

_initialize_state_structure(st) ==
    LET s1 == IF "extracted_data" \notin DOMAIN st
              THEN Put(st, "extracted_data", EmptyDict) ELSE st
        s2 == IF "stage_completion" \notin DOMAIN s1
              THEN Put(s1, "stage_completion", EmptyDict) ELSE s1
        s3 == IF "workflow_status" \notin DOMAIN s2
              THEN Put(s2, "workflow_status", "IN_PROGRESS") ELSE s2
    IN  IF "turn_count" \notin DOMAIN s3 THEN Put(s3, "turn_count", 0) ELSE s3

_extract_company_facts(company_context, research_results) ==
    LET text == company_context \o " " \o research_results
        f1 == IF Contains(text, "NxtWave") \/ Contains(text, "Nestwave")
              THEN IF Contains(text, "NxtWave Disruptive Technologies")
                   THEN Put(EmptyDict, "company_name", "NxtWave Disruptive Technologies")
                   ELSE IF Contains(text, "Nestwave")
                        THEN Put(EmptyDict, "company_name", "Nestwave")
                        ELSE EmptyDict
              ELSE EmptyDict
        f2 == IF Contains(text, "IoT") \/ Contains(text, "geolocation")
              THEN Put(f1, "industry", "IoT / Geolocation")
              ELSE IF Contains(Lower(text), "education") \/ Contains(Lower(text), "tech careers")
                   THEN Put(f1, "industry", "EdTech / Career Development")
                   ELSE f1
    IN  IF Contains(Lower(text), "students") /\ Contains(Lower(text), "professionals")
        THEN Put(f2, "target_audience", "Students and professionals seeking tech careers")
        ELSE IF Contains(text, "IoT applications")
             THEN Put(f2, "target_audience", "IoT device manufacturers")
             ELSE f2

_extract_project_facts(project_overview) ==
    LET lines == Split(project_overview, "\n")
        good == {i \in 1..Len(lines) :
                    Len(Strip(lines[i])) > 10 /\ Len(Strip(lines[i])) < 100}
        f1 == IF good # {}
              THEN LET i == CHOOSE i \in good : \A k \in good : i <= k
                   IN  Put(EmptyDict, "project_name",
                           Remove(Remove(Strip(lines[i]), "#"), "**"))
              ELSE EmptyDict
        text_lower == Lower(project_overview)
    IN  IF Contains(text_lower, "platform") THEN Put(f1, "project_type", "Platform")
        ELSE IF Contains(text_lower, "application") \/ Contains(text_lower, "app")
             THEN Put(f1, "project_type", "Application")
             ELSE IF Contains(text_lower, "system") THEN Put(f1, "project_type", "System")
                  ELSE f1

pain_point_keywords ==
    <<"problem", "issue", "difficult", "slow", "manual", "time-consuming", "inefficient">>

_extract_workflow_facts(workflow_desc) ==
    LET pain_points_count == CountPresent(pain_point_keywords, Lower(workflow_desc))
    IN  IF pain_points_count > 0
        THEN Put(Put(EmptyDict, "pain_points_identified", pain_points_count),
                 "has_pain_points", TRUE)
        ELSE EmptyDict

_extract_problem_facts(problem_statement) ==
    LET sentences == Split(problem_statement, ".")
    IN  Put(EmptyDict, "problem_summary", Truncate(Strip(sentences[1]), SummaryLength))

_extract_solution_facts(solution_vision) ==
    LET sentences == Split(solution_vision, ".")
        f1 == Put(EmptyDict, "solution_summary", Truncate(Strip(sentences[1]), SummaryLength))
        text_lower == Lower(solution_vision)
    IN  IF \/ Contains(text_lower, "ai")
           \/ Contains(text_lower, "machine learning")
           \/ Contains(text_lower, "ml")
        THEN Put(f1, "uses_ai", TRUE) ELSE f1

kpi_keywords ==
    <<"metric", "kpi", "measure", "%", "percentage", "time", "cost", "revenue">>

_extract_criteria_facts(success_criteria) ==
    LET kpis_mentioned == CountPresent(kpi_keywords, Lower(success_criteria))
    IN  IF kpis_mentioned > 0
        THEN Put(Put(EmptyDict, "kpis_defined", TRUE), "kpi_count_estimate", kpis_mentioned)
        ELSE EmptyDict

\* _extract_key_facts_for_stage indexing output_key_map instead of using .get: an
\* agent that is not in the table raises KeyError
_extract_key_facts_for_stage_indexing(st, agent_name) ==
    IF agent_name \notin DOMAIN output_key_map
    THEN [facts |-> EmptyDict, raised |-> TRUE]
    ELSE LET stage_output == Get(st, output_key_map[agent_name], PyStr(""))
         IN  IF ~Truthy(stage_output) THEN [facts |-> EmptyDict, raised |-> FALSE]
             ELSE IF agent_name = "GenerationSignoff"
             THEN [facts |-> Put(EmptyDict, "signoff_confirmed", TRUE), raised |-> FALSE]
             ELSE IF stage_output.t # "str"
             THEN [facts |-> EmptyDict, raised |-> TRUE]
             ELSE [facts |-> _extract_problem_facts(stage_output.v), raised |-> FALSE]

\* _extract_key_facts_for_stage: the facts, or raised when a str method meets a value
\* that is not text
_extract_key_facts_for_stage(st, agent_name) ==
    IF agent_name \notin DOMAIN output_key_map
    THEN [facts |-> EmptyDict, raised |-> FALSE]
    ELSE LET stage_output == Get(st, output_key_map[agent_name], PyStr(""))
             research == Get(st, "company_research_results", PyStr(""))
         IN  IF ~Truthy(stage_output) THEN [facts |-> EmptyDict, raised |-> FALSE]
             ELSE IF agent_name = "GenerationSignoff"
             THEN [facts |-> Put(EmptyDict, "signoff_confirmed", TRUE), raised |-> FALSE]
             ELSE IF stage_output.t # "str"
                     \/ (agent_name = "CompanyContext" /\ research.t # "str")
             THEN [facts |-> EmptyDict, raised |-> TRUE]
             ELSE [facts |->
                     CASE agent_name = "CompanyContext" ->
                              _extract_company_facts(stage_output.v, research.v)
                       [] agent_name = "ProjectOverview" ->
                              _extract_project_facts(stage_output.v)
                       [] agent_name = "CurrentWorkflow" ->
                              _extract_workflow_facts(stage_output.v)
                       [] agent_name = "ProblemStatement" ->
                              _extract_problem_facts(stage_output.v)
                       [] agent_name = "SolutionVision" ->
                              _extract_solution_facts(stage_output.v)
                       [] agent_name = "SuccessCriteria" ->
                              _extract_criteria_facts(stage_output.v),
                   raised |-> FALSE]

\* stage_transition_callback returning as soon as no facts were extracted
stage_transition_callback_needing_facts(st, agent_name, now, authors) ==
    LET s1 == _initialize_state_structure(st)
        ex == _extract_key_facts_for_stage(s1, agent_name)
        s2 == Put(s1, "extracted_data", Update(s1["extracted_data"], ex.facts))
        s3 == Put(s2, "stage_completion",
                  Put(s2["stage_completion"], agent_name,
                      [completed |-> TRUE,
                       timestamp |-> isoformat(now),
                       event_count |->
                           Cardinality({i \in 1..Len(authors) : authors[i] = agent_name})]))
        s4 == Put(s3, "current_stage_name", agent_name)
        s5 == Put(s4, "turn_count", Get(s4, "turn_count", 0) + 1)
    IN  IF ex.raised THEN [state |-> s1, raised |-> TRUE]
        ELSE IF ex.facts = EmptyDict THEN [state |-> s1, raised |-> FALSE]
        ELSE [state |-> s5, raised |-> FALSE]

\* stage_transition_callback for the agent agent_name at the instant now, with the
\* session's events authored by `authors`: the new state and whether it raised
stage_transition_callback(st, agent_name, now, authors) ==
    LET s1 == _initialize_state_structure(st)
        ex == _extract_key_facts_for_stage(s1, agent_name)
        s2 == IF ex.facts # EmptyDict
              THEN Put(s1, "extracted_data", Update(s1["extracted_data"], ex.facts))
              ELSE s1
        s3 == Put(s2, "stage_completion",
                  Put(s2["stage_completion"], agent_name,
                      [completed |-> TRUE,
                       timestamp |-> isoformat(now),
                       event_count |->
                           Cardinality({i \in 1..Len(authors) : authors[i] = agent_name})]))
        s4 == Put(s3, "current_stage_name", agent_name)
        s5 == Put(s4, "turn_count", Get(s4, "turn_count", 0) + 1)
    IN  IF ex.raised THEN [state |-> s1, raised |-> TRUE]
        ELSE [state |-> s5, raised |-> FALSE]

----------------
(* app/agents/consultant.py *)

INSTRUCTIONS_DIR == "instructions"

\* Path.__truediv__ and str(path)
PathJoin(dir, file) == dir \o "/" \o file

\* the instructions directory on disk: its files, and a subdirectory
InstructionFiles == {"intro.md", "payment.md"}

InstructionDirectories == {"drafts"}

\* Path.exists / Path.is_file under INSTRUCTIONS_DIR
exists(instruction_file) == instruction_file \in InstructionFiles \cup InstructionDirectories

is_file(instruction_file) == instruction_file \in InstructionFiles

\* the keys of TOOLS_MAP, in insertion order
TOOLS_MAP == <<"complete_program_explanation", "complete_payment_structure">>

InToolsMap(tool_name) == \E i \in 1..Len(TOOLS_MAP) : TOOLS_MAP[i] = tool_name

\* sep.join(items)
RECURSIVE Join(_, _)
Join(sep, items) ==
    IF items = <<>> THEN ""
    ELSE IF Len(items) = 1 THEN items[1]
    ELSE items[1] \o sep \o Join(sep, Tail(items))

\* repr of a list of str
ListRepr(items) ==
    "[" \o Join(", ", [i \in 1..Len(items) |-> "'" \o items[i] \o "'"]) \o "]"

\* f"{stage.get('id', 'unknown')}"
StageIdText(stage) == IF "id" \in DOMAIN stage THEN Str(stage["id"]) ELSE "unknown"

\* the body of validate_stage_config's loop: the errors one stage entry adds
StageErrors(stage) ==
    LET stage_id == StageIdText(stage)
        instruction_file == Get(stage, "instruction_file", "")
        tool_name == Get(stage, "tool_name", "")
        file_errors ==
            IF instruction_file = ""
            THEN << "Stage " \o stage_id \o ": Missing 'instruction_file' in config" >>
            ELSE IF ~exists(instruction_file)
            THEN << "Stage " \o stage_id \o ": Instruction file not found: "
                        \o PathJoin(INSTRUCTIONS_DIR, instruction_file) >>
            ELSE IF ~is_file(instruction_file)
            THEN << "Stage " \o stage_id \o ": Instruction path is not a file: "
                        \o PathJoin(INSTRUCTIONS_DIR, instruction_file) >>
            ELSE << >>
        tool_errors ==
            IF tool_name = ""
            THEN << "Stage " \o stage_id \o ": Missing 'tool_name' in config" >>
            ELSE IF ~InToolsMap(tool_name)
            THEN << "Stage " \o stage_id \o ": Tool '" \o tool_name
                        \o "' not found in TOOLS_MAP. Available tools: "
                        \o ListRepr(TOOLS_MAP) >>
            ELSE << >>
    IN  file_errors \o tool_errors

\* the errors list after the loop over the first n stages of the configuration
RECURSIVE ErrorsUpTo(_, _)
ErrorsUpTo(config, n) ==
    IF n = 0 THEN <<>> ELSE ErrorsUpTo(config, n - 1) \o StageErrors(config[n])

\* the message of the ValueError (its leading cross-mark emoji is left out)
ValidationMessage(errors) ==
    "\nStage configuration validation failed:\n"
        \o Join("\n", [i \in 1..Len(errors) |-> "  - " \o errors[i]])

\* a validation that raises on the first error it meets
validate_stage_config_first_error(config) ==
    LET all == ErrorsUpTo(config, Len(config))
        errors == IF all = <<>> THEN all ELSE <<all[1]>>
    IN  [raised |-> errors # <<>>,
         error_message |-> IF errors # <<>> THEN ValidationMessage(errors) ELSE ""]

validate_stage_config(config) ==
    LET errors == ErrorsUpTo(config, Len(config))
    IN  [raised |-> errors # <<>>,
         error_message |-> IF errors # <<>> THEN ValidationMessage(errors) ELSE ""]

\* the body of get_consultant_agent's loop for one stage: the LlmAgent, or the
\* KeyError of a field the stage does not have
SubAgent(stage) ==
    IF "instruction_file" \notin DOMAIN stage THEN [raised |-> TRUE, key |-> "instruction_file"]
    ELSE IF "id" \notin DOMAIN stage THEN [raised |-> TRUE, key |-> "id"]
    ELSE IF "description" \notin DOMAIN stage THEN [raised |-> TRUE, key |-> "description"]
    ELSE IF "tool_name" \notin DOMAIN stage THEN [raised |-> TRUE, key |-> "tool_name"]
    ELSE [raised |-> FALSE,
          agent |-> [name |-> "stage_" \o Str(stage["id"]) \o "_agent",
                     description |-> stage["description"],
                     output_key |-> "stage_" \o Str(stage["id"]) \o "_output",
                     tool |-> stage["tool_name"]]]

\* sub_agents after the loop over the first n stages, and the error that ended it
RECURSIVE SubAgentsUpTo(_, _)
SubAgentsUpTo(config, n) ==
    IF n = 0 THEN [sub_agents |-> <<>>, error |-> ""]
    ELSE LET before == SubAgentsUpTo(config, n - 1)
             this == SubAgent(config[n])
         IN  IF before.error # "" THEN before
             ELSE IF this.raised
             THEN [sub_agents |-> before.sub_agents, error |-> "KeyError: " \o this.key]
             ELSE [sub_agents |-> Append(before.sub_agents, this.agent), error |-> ""]

\* get_consultant_agent: outcome "ValueError" (validation raised), "KeyError"
\* (construction raised) or "returned", with the agents constructed on the way
get_consultant_agent(config) ==
    LET v == validate_stage_config(config)
        built == SubAgentsUpTo(config, Len(config))
    IN  IF v.raised
        THEN [outcome |-> "ValueError", error |-> v.error_message, sub_agents |-> <<>>]
        ELSE IF built.error # ""
        THEN [outcome |-> "KeyError", error |-> built.error, sub_agents |-> built.sub_agents]
        ELSE [outcome |-> "returned", error |-> "", sub_agents |-> built.sub_agents]

----------------
(* app/fast_api_app.py *)

\* What a websocket message is to receive_from_client: a JSON object with a "setup"
\* key, another JSON object, a binary frame, text that is not JSON, or the client's
\* disconnect
MessageKinds == {"setup", "json", "bytes", "malformed", "disconnect"}

\* the loop body marking has_cleared_resuming once the clear was tried, append or not
receive_from_client_marking_attempt(session, has_cleared, st, kind, append_ok) ==
    LET eligible == kind = "json"
        clearing == /\ eligible
                    /\ ~has_cleared
                    /\ session
                    /\ Get(st, "is_resuming", FALSE)
    IN  [state |-> IF clearing /\ append_ok THEN Put(st, "is_resuming", FALSE) ELSE st,
         has_cleared_resuming |-> IF clearing /\ TRUE THEN TRUE ELSE has_cleared,
         receiving |-> kind \notin {"malformed", "disconnect"},
         appended |-> clearing /\ append_ok]

\* the loop body clearing on binary frames too
receive_from_client_clearing_on_bytes(session, has_cleared, st, kind, append_ok) ==
    LET eligible == kind \in {"json", "bytes"}
        clearing == /\ eligible
                    /\ ~has_cleared
                    /\ session
                    /\ Get(st, "is_resuming", FALSE)
    IN  [state |-> IF clearing /\ append_ok THEN Put(st, "is_resuming", FALSE) ELSE st,
         has_cleared_resuming |-> IF clearing /\ append_ok THEN TRUE ELSE has_cleared,
         receiving |-> kind \notin {"malformed", "disconnect"},
         appended |-> clearing /\ append_ok]

\* One iteration of receive_from_client's loop on a message of the given kind, in an
\* AgentSession whose session object is set or not.  append_ok: the session service
\* accepts the clearing event.  appended: a clearing event was appended.
receive_from_client(session, has_cleared, st, kind, append_ok) ==
    LET eligible == kind = "json"
        clearing == /\ eligible
                    /\ ~has_cleared
                    /\ session
                    /\ Get(st, "is_resuming", FALSE)
    IN  [state |-> IF clearing /\ append_ok THEN Put(st, "is_resuming", FALSE) ELSE st,
         has_cleared_resuming |-> IF clearing /\ append_ok THEN TRUE ELSE has_cleared,
         receiving |-> kind \notin {"malformed", "disconnect"},
         appended |-> clearing /\ append_ok]

\* An identifier that is None or empty is "" (both are falsy to the code)
\* Python's `a or b` on identifiers
Or(a, b) == IF a # "" THEN a ELSE b

\* the identifiers a JSON object can carry, at its top level or inside its "setup"
NoIdentifiers ==
    [user_id |-> "", session_id |-> "", project_id |-> "", user_name |-> "",
     user_language |-> ""]

\* payload["setup"]: absent, a dict, or a value that is no dict
NoSetup == [kind |-> "absent", ids |-> NoIdentifiers]

\* one of the three `if x: if self.x and self.x != x: (warn) else: self.x = x` blocks
\* with the conflict test dropped: the later value replaces the earlier one
KeepOrSet_replacing(current, value) == IF value # "" THEN value ELSE current

\* one of the three `if x: if self.x and self.x != x: (warn) else: self.x = x` blocks
KeepOrSet(current, value) ==
    IF value # ""
    THEN IF current # "" /\ current # value THEN current ELSE value
    ELSE current

\* AgentSession._update_identifiers(payload)
_update_identifiers(self, payload) ==
    LET setup_payload == IF payload.setup.kind = "dict" THEN payload.setup.ids
                         ELSE NoIdentifiers
        user_id == Or(payload.ids.user_id, setup_payload.user_id)
        session_id0 == Or(payload.ids.session_id, setup_payload.session_id)
        project_id == Or(payload.ids.project_id, setup_payload.project_id)
        user_name == Or(payload.ids.user_name, setup_payload.user_name)
        user_language == Or(payload.ids.user_language, setup_payload.user_language)
        session_id == IF session_id0 = "" /\ project_id # "" THEN project_id
                      ELSE session_id0
        new_user_id == KeepOrSet(self.user_id, user_id)
    IN  [self EXCEPT
             !.user_name = IF user_name # "" THEN user_name ELSE @,
             !.user_language = IF user_language # "" THEN user_language ELSE @,
             !.user_id = new_user_id,
             !.session_id = KeepOrSet(self.session_id, session_id),
             !.project_id = KeepOrSet(self.project_id, project_id),
             !.user_id_ready = IF new_user_id # "" THEN TRUE ELSE @]

\* What a websocket message is to the loop of receive_from_client, as to identifiers
\* and queueing: MessageKinds and "list", JSON text that is not an object
QueueKinds == MessageKinds \cup {"list"}

\* One iteration of receive_from_client's loop as to the identifiers and the input
\* queue.  message: its kind, its payload (for JSON objects), and whether
\* LiveRequest.model_validate accepts it.  track: the queues are kept.
receive_message(self, message, track) ==
    LET arrived == IF track
                   THEN [self EXCEPT !.received =
                             Append(@, [kind |-> message.kind, valid |-> message.valid])]
                   ELSE self
        n == Len(self.received) + 1
        put(s) == IF track THEN [s EXCEPT !.input_queue =
                                     Append(@, [n |-> n, valid |-> message.valid])]
                  ELSE s
    IN  CASE message.kind = "setup" -> _update_identifiers(arrived, message.payload)
          [] message.kind = "json" -> put(_update_identifiers(arrived, message.payload))
          [] message.kind = "bytes" -> put(arrived)
          [] message.kind = "list" -> arrived
          [] message.kind = "malformed" -> [arrived EXCEPT !.receiving = FALSE]
          [] message.kind = "disconnect" ->
                 [arrived EXCEPT !.receiving = FALSE, !.open = FALSE]

\* the websocket the modelled AgentSession serves, and the id session_service gives a
\* session created without one
ConnWebSocket == "wsA"

CreatedSessionId == "s0"

\* AgentSession.__init__, with run_agent and receive_from_client started by
\* asyncio.gather.  Besides the object's fields: pc (where run_agent stands),
\* forwarder (the _forward_requests task), live_request_queue, receiving (the receive
\* loop runs), open (the client is connected), and the history of the connection:
\* received (every message, in order), sent (what run_agent sent to the client),
\* registered / unregistered (the ids passed to connect / disconnect), user_info (the
\* name and language event), failure (what raised first), saved (the transcript save
\* was attempted), raised (run_agent ended by raising)
NewConnection ==
    [user_id |-> "", session_id |-> "", project_id |-> "", user_name |-> "",
     user_language |-> "", user_id_ready |-> FALSE, session |-> FALSE,
     input_queue |-> <<>>, pc |-> "waiting", forwarder |-> "none",
     live_request_queue |-> <<>>, receiving |-> TRUE, open |-> TRUE,
     received |-> <<>>, sent |-> <<>>, registered |-> "", unregistered |-> "",
     user_info |-> "none", failure |-> "", saved |-> FALSE, raised |-> FALSE]

\* an exception inside run_agent's try: control goes to `except Exception` (423)
Raise(self, what) == [self EXCEPT !.pc = "except", !.failure = what]

\* self.session = session and the registration that follow the session lookup, with
\* the registration left out
establish_unregistered(self, conns) ==
    [self |-> [self EXCEPT
                   !.session = TRUE,
                   !.pc = IF self.session_id # ""
                             /\ (self.user_name # "" \/ self.user_language # "")
                          THEN "storing" ELSE "announcing"],
     conns |-> conns]

\* self.session = session; await connection_manager.connect(self.session_id,
\* self.websocket); then the name and language event, if there is either (323-328)
establish(self, conns) ==
    [self |-> [self EXCEPT
                   !.session = TRUE,
                   !.registered = self.session_id,
                   !.pc = IF self.session_id # ""
                             /\ (self.user_name # "" \/ self.user_language # "")
                          THEN "storing" ELSE "announcing"],
     conns |-> connect(conns, self.session_id, ConnWebSocket)]

\* the finally block around _forward_events (412-421); raising: _forward_events
\* raised.  Awaiting the cancelled forwarder re-raises what the forwarder died of, and
\* then the queue is not closed and the session id stays registered.
leave(self, conns, raising) ==
    IF self.forwarder = "failed"
    THEN [self |-> Raise(self, IF raising THEN "run" ELSE "forwarder"), conns |-> conns]
    ELSE LET left == [self EXCEPT !.forwarder = "cancelled",
                                  !.unregistered = self.session_id]
         IN  [self |-> IF raising THEN Raise(left, "run")
                       ELSE [left EXCEPT !.pc = "finally"],
              conns |-> disconnect(conns, self.session_id)]

\* what an awaited call of run_agent does: it returns, it raises, or (the runner's
\* event stream) it ends
Outcomes == {"returns", "raises", "ends"}

\* AgentSession.run_agent from one suspension point to the next.  pc: "waiting" (299),
\* "creating" (305), "getting" (311-321), "storing" (342), "announcing" (348),
\* "identifying" (350), "running" (395-402), "except" (425), "finally" (428-429),
\* "over".  A send to the client returns exactly when the client is connected.
run_agent(self, conns, outcome) ==
    CASE self.pc = "waiting" ->
             [self |-> IF ~self.user_id_ready THEN self
                       ELSE IF self.user_id = "" THEN Raise(self, "setup")
                       ELSE [self EXCEPT !.pc = IF self.session_id = "" THEN "creating"
                                                ELSE "getting"],
              conns |-> conns]
      [] self.pc = "creating" ->
             IF outcome = "raises" THEN [self |-> Raise(self, "session"), conns |-> conns]
             ELSE establish([self EXCEPT !.session_id = CreatedSessionId], conns)
      [] self.pc = "getting" ->
             IF outcome = "raises" THEN [self |-> Raise(self, "session"), conns |-> conns]
             ELSE establish(self, conns)
      [] self.pc = "storing" ->
             [self |-> [self EXCEPT !.user_info = IF outcome = "raises" THEN "failed"
                                                  ELSE "stored",
                                    !.pc = "announcing"],
              conns |-> conns]
      [] self.pc = "announcing" ->
             [self |-> IF self.open
                       THEN [self EXCEPT !.sent = Append(@, "setupComplete"),
                                         !.pc = "identifying"]
                       ELSE Raise(self, "send"),
              conns |-> conns]
      [] self.pc = "identifying" ->
             [self |-> IF self.open
                       THEN [self EXCEPT !.sent = Append(@, "session_id"),
                                         !.forwarder = "running",
                                         !.pc = "running"]
                       ELSE Raise(self, "send"),
              conns |-> conns]
      [] self.pc = "running" ->
             IF outcome = "returns"
             THEN IF self.open THEN [self |-> self, conns |-> conns]
                  ELSE leave(self, conns, FALSE)
             ELSE leave(self, conns, outcome = "raises")
      [] self.pc = "except" ->
             [self |-> IF self.open
                       THEN [self EXCEPT !.sent = Append(@, "error"), !.pc = "finally"]
                       ELSE [self EXCEPT !.raised = TRUE, !.pc = "finally"],
              conns |-> conns]
      [] self.pc = "finally" ->
             [self |-> [self EXCEPT !.saved = self.session, !.pc = "over"],
              conns |-> conns]
      [] OTHER -> [self |-> self, conns |-> conns]

\* _forward_requests, one iteration of its loop: the oldest queued request is
\* validated and sent to the live request queue, or the validation raises and the
\* task dies
_forward_requests(self) ==
    LET request == Head(self.input_queue)
    IN  IF request.valid
        THEN [self EXCEPT !.input_queue = Tail(@),
                          !.live_request_queue = Append(@, request.n)]
        ELSE [self EXCEPT !.input_queue = Tail(@), !.forwarder = "failed"]

\* RATE_LIMIT_WINDOW, in seconds
RATE_LIMIT_WINDOW == 60

RATE_LIMIT_MAX == 10

\* deque(maxlen=10) of rate_limit_store's default factory
DequeMaxLen == 10

\* the close code of a refused connection
PolicyViolation == 1008

\* deque.append on a deque with maxlen: a full deque drops its oldest entry
DequeAppend(timestamps, t) ==
    LET appended == Append(timestamps, t)
    IN  IF Len(appended) > DequeMaxLen THEN Tail(appended) ELSE appended

\* while timestamps and current_time - timestamps[0] > RATE_LIMIT_WINDOW: popleft()
RECURSIVE PopExpired(_, _)
PopExpired(timestamps, now) ==
    IF timestamps # <<>> /\ now - Head(timestamps) > RATE_LIMIT_WINDOW
    THEN PopExpired(Tail(timestamps), now)
    ELSE timestamps

\* websocket_endpoint recording the attempt before it checks the limit
websocket_endpoint_recording_first(limit_store, client_ip, now) ==
    LET timestamps == PopExpired(limit_store[client_ip], now)
    IN  IF Len(timestamps) >= RATE_LIMIT_MAX
        THEN [rate_limit_store |-> [limit_store EXCEPT
                                        ![client_ip] = DequeAppend(timestamps, now)],
              accepted |-> FALSE, close_code |-> PolicyViolation]
        ELSE [rate_limit_store |-> [limit_store EXCEPT
                                        ![client_ip] = DequeAppend(timestamps, now)],
              accepted |-> TRUE, close_code |-> 0]

\* websocket_endpoint up to websocket.accept(), for a connection attempt from
\* client_ip at the time `now`: the store afterwards, whether the websocket was
\* accepted, and the code it was closed with otherwise.  What follows the accept is
\* connect_and_run, the connection itself.
websocket_endpoint(limit_store, client_ip, now) ==
    LET timestamps == PopExpired(limit_store[client_ip], now)
    IN  IF Len(timestamps) >= RATE_LIMIT_MAX
        THEN [rate_limit_store |-> [limit_store EXCEPT ![client_ip] = timestamps],
              accepted |-> FALSE, close_code |-> PolicyViolation]
        ELSE [rate_limit_store |-> [limit_store EXCEPT
                                        ![client_ip] = DequeAppend(timestamps, now)],
              accepted |-> TRUE, close_code |-> 0]

----------------
(* The state machine *)

Index(st) == Get(st, "current_stage_index", 0)

Resuming(st) == Get(st, "is_resuming", FALSE)

Bump(count, stage_index) ==
    IF stage_index \in DOMAIN count
    THEN [count EXCEPT ![stage_index] = IF @ < 2 THEN @ + 1 ELSE 2]
    ELSE count

NoneAccepted == [n \in 0 .. (MaxStage - 1) |-> 0]

NoReturn == [op |-> "none", args |-> <<>>, msg |-> "", raised |-> FALSE]

NoPush == [attempts |-> <<>>, delivered |-> <<>>, raised |-> FALSE]

\* the session ids of two sessions side by side
RegistrySessionIds == {"s1", "s2"}

\* a websocket that no connection uses yet
NoHandler == [pc |-> "idle", user_id |-> "", session_id |-> NoSession, open |-> FALSE]

\* A fresh session, or one restored for resumption (the store marks it is_resuming)
\* AgentSession.__init__: no session object yet; receiving: receive_from_client's loop
\* has not ended; clears (history): clearing events this connection has appended
NewAgentSession == [session |-> FALSE, receiving |-> TRUE, clears |-> 0]

NotLoaded == [pc |-> "importing", STAGES_CONFIG |-> <<>>, result |-> <<>>]

Init ==
    /\ state \in {EmptyDict, [k \in {"is_resuming"} |-> TRUE]}
    /\ ret = NoReturn
    /\ tasks = <<>>
    /\ active_connections = EmptyDict
    /\ pushed = NoPush
    /\ has_cleared_resuming = FALSE
    /\ handlers = [w \in WebSockets |-> NoHandler]
    /\ startup = NotLoaded
    /\ store = [sid \in RegistrySessionIds |-> EmptyDict]
    /\ agent_session = NewAgentSession
    /\ conn = NewConnection
    /\ rate_limit_store = [ip \in ClientIps |-> <<>>]
    /\ current_time = 0
    /\ attempts = [ip \in ClientIps |-> <<>>]
    /\ accepted = NoneAccepted
    /\ acceptedSinceFinalize = NoneAccepted

\* What the step leaves in ret.  observe: return values are kept (under SpecPush only)
Returned(observe, op, args, msg, raised) ==
    IF observe THEN [op |-> op, args |-> args, msg |-> msg, raised |-> raised]
    ELSE NoReturn

\* A tool call of the advance family returned r for the asserted stage_index.
\* track: the history variables are kept (under SpecHistory only).
AdvanceStep(op, stage_index, r, observe, track) ==
    /\ Len(tasks) + Len(r.tasks) <= MaxTasks
    /\ state' = r.state
    /\ ret' = Returned(observe, op, <<stage_index>>, r.msg, r.raised)
    /\ tasks' = tasks \o r.tasks
    /\ accepted' = IF track /\ r.state # state
                   THEN Bump(accepted, stage_index) ELSE accepted
    /\ acceptedSinceFinalize' = IF track /\ r.state # state
                                THEN Bump(acceptedSinceFinalize, stage_index)
                                ELSE acceptedSinceFinalize
    /\ pushed' = NoPush
    /\ UNCHANGED <<conn, rate_limit_store, current_time, attempts, agent_session, store, startup, handlers, active_connections, has_cleared_resuming>>

\* tool contexts <<session id, an event loop is running, scheduling the push raises>>
ToolContexts == (SessionIds \cup {NoSession}) \X BOOLEAN \X BOOLEAN

\* the tool contexts of a synchronous caller: no event loop is running
SyncContexts == {c \in ToolContexts : ~c[2]}

\* the agent calls advance_stage(tool_context, stage_index) in the tool context c
AdvanceStageCall(stage_index, c, observe, track) ==
    AdvanceStep("advance_stage", stage_index,
                advance_stage(state, c[1], stage_index, c[2], c[3]), observe, track)

AdvanceStage(contexts, observe, track) == \E stage_index \in StageArgs, c \in contexts :
    AdvanceStageCall(stage_index, c, observe, track)

CompleteProgramExplanation(contexts, observe, track) == \E c \in contexts :
    AdvanceStep("complete_program_explanation", 0,
                complete_program_explanation(state, c[1], c[2], c[3]), observe, track)

CompletePaymentStructure(contexts, observe, track) == \E c \in contexts :
    AdvanceStep("complete_payment_structure", 1,
                complete_payment_structure(state, c[1], c[2], c[3]), observe, track)

CompleteCurrentWorkflow(contexts, observe, track) == \E c \in contexts :
    AdvanceStep("complete_current_workflow", 2,
                complete_current_workflow(state, c[1], c[2], c[3]), observe, track)

CompleteProblemStatement(contexts, observe, track) == \E c \in contexts :
    AdvanceStep("complete_problem_statement", 3,
                complete_problem_statement(state, c[1], c[2], c[3]), observe, track)

CompleteSolutionVision(contexts, observe, track) == \E c \in contexts :
    AdvanceStep("complete_solution_vision", 4,
                complete_solution_vision(state, c[1], c[2], c[3]), observe, track)

CompleteSuccessCriteria(contexts, observe, track) == \E c \in contexts :
    AdvanceStep("complete_success_criteria", 5,
                complete_success_criteria(state, c[1], c[2], c[3]), observe, track)

CompleteTool(contexts, observe, track) ==
    \/ CompleteProgramExplanation(contexts, observe, track)
    \/ CompletePaymentStructure(contexts, observe, track)
    \/ CompleteCurrentWorkflow(contexts, observe, track)
    \/ CompleteProblemStatement(contexts, observe, track)
    \/ CompleteSolutionVision(contexts, observe, track)
    \/ CompleteSuccessCriteria(contexts, observe, track)

GetCurrentStage(observe) ==
    LET r == get_current_stage(state)
    IN  /\ state' = r.state
        /\ ret' = Returned(observe, "get_current_stage", <<>>, r.msg, FALSE)
        /\ pushed' = NoPush
        /\ UNCHANGED <<conn, rate_limit_store, current_time, attempts, agent_session, store, startup, handlers, tasks, active_connections, has_cleared_resuming,
                       accepted, acceptedSinceFinalize>>

FinalizeDiscovery(observe, track) ==
    LET r == finalize_discovery(state)
    IN  /\ state' = r.state
        /\ ret' = Returned(observe, "finalize_discovery", <<>>, r.msg, FALSE)
        /\ acceptedSinceFinalize' = IF track THEN NoneAccepted ELSE acceptedSinceFinalize
        /\ pushed' = NoPush
        /\ UNCHANGED <<conn, rate_limit_store, current_time, attempts, agent_session, store, startup, handlers, tasks, active_connections, has_cleared_resuming, accepted>>

\* The event loop runs the oldest scheduled send_stage_update coroutine
RunPushTaskWith(send_ok) ==
    /\ tasks # <<>>
    /\ LET t == Head(tasks)
       IN  pushed' = send_stage_update(active_connections, t.session_id,
                                       t.stage_index, send_ok)
    /\ tasks' = Tail(tasks)
    /\ ret' = NoReturn
    /\ UNCHANGED <<conn, rate_limit_store, current_time, attempts, agent_session, store, startup, handlers, state, active_connections, has_cleared_resuming,
                   accepted, acceptedSinceFinalize>>

RunPushTask == \E send_ok \in BOOLEAN : RunPushTaskWith(send_ok)

\* run_agent registers its websocket under the session id, one of `sids`; a websocket
\* serves one session id (AgentSession.session_id is set once)
ConnectOf(sids, observe) == \E sid \in sids, w \in WebSockets :
    /\ \A o \in DOMAIN active_connections \ {sid} : active_connections[o] # w
    /\ active_connections' = connect(active_connections, sid, w)
    /\ ret' = Returned(observe, "connect", <<sid, w>>, "", FALSE)
    /\ pushed' = NoPush
    /\ UNCHANGED <<conn, rate_limit_store, current_time, attempts, agent_session, store, startup, handlers, state, tasks, has_cleared_resuming, accepted,
                   acceptedSinceFinalize>>

Connect == ConnectOf(SessionIds, FALSE)

\* run_agent's teardown unregisters the session id, one of `sids`
DisconnectOf(sids, observe) == \E sid \in sids :
    /\ active_connections' = disconnect(active_connections, sid)
    /\ ret' = Returned(observe, "disconnect", <<sid>>, "", FALSE)
    /\ pushed' = NoPush
    /\ UNCHANGED <<conn, rate_limit_store, current_time, attempts, agent_session, store, startup, handlers, state, tasks, has_cleared_resuming, accepted,
                   acceptedSinceFinalize>>

Disconnect == DisconnectOf(SessionIds, FALSE)

\* The agents whose turns the recorder sees, and what a stage agent leaves under its
\* output key
RecorderAgents == {"ProblemStatement", "stage_0_agent"}

StageOutputs == <<PyStr(""), PyStr("Billing is slow. Fix it"), PyInt(7)>>

Instants == {1}

\* what session.events holds when the recorder runs: the authors, oldest first
EventLogs == {<<>>, <<"user", "ProblemStatement">>, <<"stage_0_agent", "user", "stage_0_agent">>}

\* the engine stores one of `outputs` as the output of a stage agent among `agents`
\* under the agent's output key
WriteStageOutputOf(agents, outputs) ==
    \E agent_name \in agents \cap DOMAIN output_key_map, i \in 1..Len(outputs) :
        /\ state' = Put(state, output_key_map[agent_name], outputs[i])
        /\ state' # state
        /\ ret' = NoReturn
        /\ pushed' = NoPush
        /\ UNCHANGED <<conn, rate_limit_store, current_time, attempts, agent_session, store, startup, handlers, tasks, active_connections, has_cleared_resuming,
                       accepted, acceptedSinceFinalize>>

WriteStageOutput == WriteStageOutputOf(RecorderAgents, StageOutputs)

\* the engine runs stage_transition_callback after a turn of an agent among `agents`,
\* while fewer than `turns` turns were recorded
RecordStageBy(agents, turns, observe) ==
    \E agent_name \in agents, now \in Instants, authors \in EventLogs :
        LET r == stage_transition_callback(state, agent_name, now, authors)
        IN  /\ Get(state, "turn_count", 0) < turns
            /\ state' = r.state
            /\ ret' = Returned(observe, "stage_transition_callback", <<agent_name, authors>>, "",
                               r.raised)
            /\ pushed' = NoPush
            /\ UNCHANGED <<conn, rate_limit_store, current_time, attempts, agent_session, store, startup, handlers, tasks, active_connections, has_cleared_resuming,
                           accepted, acceptedSinceFinalize>>

RecordStage(observe) == RecordStageBy(RecorderAgents, MaxTurns, observe)

\* The recorder on its own: two stages of the output-key table, one agent that is not
\* in it, and outputs that are empty, two different texts, and not a text
RecordedStages == {"ProblemStatement", "GenerationSignoff", "stage_0_agent"}

RecordedOutputs == <<PyStr(""), PyStr("Billing is slow. Fix it"),
                     PyStr("Reports are manual"), PyInt(7)>>

\* receive_from_client, on a JSON message that is not a setup message: the first such
\* message of a connection clears is_resuming by appending an event; append_ok: the
\* session service accepts the event
ClearResuming == \E append_ok \in BOOLEAN :
    /\ ~has_cleared_resuming
    /\ Get(state, "is_resuming", FALSE)
    /\ IF append_ok
       THEN /\ state' = Put(state, "is_resuming", FALSE)
            /\ has_cleared_resuming' = TRUE
       ELSE UNCHANGED <<conn, rate_limit_store, current_time, attempts, agent_session, store, startup, handlers, state, has_cleared_resuming>>
    /\ ret' = NoReturn
    /\ pushed' = NoPush
    /\ UNCHANGED <<conn, rate_limit_store, current_time, attempts, agent_session, store, startup, handlers, tasks, active_connections, accepted, acceptedSinceFinalize>>

\* A client reconnects to the session: the store hands out the persisted state marked
\* is_resuming, and a new AgentSession serves the connection
Resume ==
    /\ ~Get(state, "is_resuming", FALSE)
    /\ state' = Put(state, "is_resuming", TRUE)
    /\ has_cleared_resuming' = FALSE
    /\ agent_session' = NewAgentSession
    /\ ret' = NoReturn
    /\ pushed' = NoPush
    /\ UNCHANGED <<conn, rate_limit_store, current_time, attempts, store, startup, handlers, tasks, active_connections, accepted, acceptedSinceFinalize>>

\* the user_id values a handshake can carry
UserIds == {"u1", "u2"}

\* run_agent of the connection on websocket w, between the points where it can stop.
\* pc: "idle" (no connection yet), "setup" (session found or created), "registered"
\* (connect done), "announced" (setupComplete sent), "serving" (forwarding events),
\* "done" (run_agent returned or raised).  open: the client has not disconnected.

PushStages == {1, 2}

Registered == {"registered", "announced", "serving"}

HandlerFrame ==
    /\ ret' = NoReturn
    /\ pushed' = NoPush
    /\ UNCHANGED <<conn, rate_limit_store, current_time, attempts, agent_session, store, startup, state, tasks, has_cleared_resuming, accepted,
                   acceptedSinceFinalize>>

\* a client connects on w and its setup names the session (or run_agent creates it)
Setup(w) == \E uid \in UserIds, sid \in RegistrySessionIds :
    /\ handlers[w].pc = "idle"
    /\ handlers' = [handlers EXCEPT ![w] = [pc |-> "setup", user_id |-> uid,
                                            session_id |-> sid, open |-> TRUE]]
    /\ UNCHANGED active_connections
    /\ HandlerFrame

\* await connection_manager.connect(self.session_id, self.websocket)
Register(w) ==
    /\ handlers[w].pc = "setup"
    /\ active_connections' = connect(active_connections, handlers[w].session_id, w)
    /\ handlers' = [handlers EXCEPT ![w].pc = "registered"]
    /\ HandlerFrame

\* await self.websocket.send_json({"setupComplete": {}}): on a closed websocket it
\* raises, run_agent's outer except logs it and run_agent ends
SendSetupComplete(w) ==
    /\ handlers[w].pc = "registered"
    /\ handlers' = [handlers EXCEPT ![w].pc = IF handlers[w].open THEN "announced"
                                              ELSE "done"]
    /\ UNCHANGED active_connections
    /\ HandlerFrame

\* await self.websocket.send_json({"session_id": self.session_id}), likewise
SendSessionId(w) ==
    /\ handlers[w].pc = "announced"
    /\ handlers' = [handlers EXCEPT ![w].pc = IF handlers[w].open THEN "serving"
                                              ELSE "done"]
    /\ UNCHANGED active_connections
    /\ HandlerFrame

\* _forward_events ends (a send to the client failed, or the runner's event stream
\* ended or raised); the finally block unregisters the session id
StopForwarding(w) ==
    /\ handlers[w].pc = "serving"
    /\ active_connections' = disconnect(active_connections, handlers[w].session_id)
    /\ handlers' = [handlers EXCEPT ![w].pc = "done"]
    /\ HandlerFrame

\* the client of w goes away: receive_from_client sees the disconnect and returns
ClientDisconnect(w) ==
    /\ handlers[w].pc \in {"setup"} \cup Registered
    /\ handlers[w].open
    /\ handlers' = [handlers EXCEPT ![w].open = FALSE]
    /\ UNCHANGED active_connections
    /\ HandlerFrame

HandlerStep(w) ==
    \/ Register(w)
    \/ SendSetupComplete(w)
    \/ SendSessionId(w)
    \/ StopForwarding(w)

\* a coroutine runs manager.send_stage_update(session_id, stage_index); send_ok: the
\* websocket's send returns, which it can only with the client still there
PushToCall(session_id, stage_index, send_ok) ==
    LET r == send_stage_update(active_connections, session_id, stage_index, send_ok)
    IN  /\ session_id \in DOMAIN active_connections /\ send_ok
            => handlers[active_connections[session_id]].open
        /\ pushed' = r
        /\ ret' = Returned(TRUE, "send_stage_update", <<session_id, stage_index>>, "",
                           r.raised)
        /\ UNCHANGED <<conn, rate_limit_store, current_time, attempts, agent_session, store, startup, handlers, state, tasks, active_connections, has_cleared_resuming,
                       accepted, acceptedSinceFinalize>>

PushTo == \E session_id \in RegistrySessionIds, stage_index \in PushStages,
             send_ok \in BOOLEAN :
    PushToCall(session_id, stage_index, send_ok)

\* Stage entries a configuration file can hold: two well-formed ones, and entries
\* that lack a field, name a missing file, a directory or an unregistered tool, or
\* carry an id out of sequence
StageEntries ==
    << [id |-> 0, instruction_file |-> "intro.md", description |-> "Explain",
        tool_name |-> "complete_program_explanation", output_key |-> "explained"],
       [id |-> 1, instruction_file |-> "payment.md", description |-> "Pay",
        tool_name |-> "complete_payment_structure", output_key |-> "paid"],
       [id |-> 1, description |-> "Pay",
        tool_name |-> "complete_payment_structure", output_key |-> "paid"],
       [id |-> 1, instruction_file |-> "", description |-> "Pay",
        tool_name |-> "complete_payment_structure", output_key |-> "paid"],
       [id |-> 1, instruction_file |-> "gone.md", description |-> "Pay",
        tool_name |-> "complete_payment_structure", output_key |-> "paid"],
       [id |-> 1, instruction_file |-> "drafts", description |-> "Pay",
        tool_name |-> "complete_payment_structure", output_key |-> "paid"],
       [id |-> 1, instruction_file |-> "payment.md", description |-> "Pay",
        output_key |-> "paid"],
       [id |-> 1, instruction_file |-> "payment.md", description |-> "Pay",
        tool_name |-> "advance_stage", output_key |-> "paid"],
       [id |-> 1, instruction_file |-> "gone.md", description |-> "Pay",
        tool_name |-> "advance_stage", output_key |-> "paid"],
       [description |-> "Pay", output_key |-> "paid"],
       [id |-> 1, instruction_file |-> "payment.md",
        tool_name |-> "complete_payment_structure", output_key |-> "paid"],
       [id |-> 1, instruction_file |-> "payment.md", description |-> "Pay",
        tool_name |-> "complete_payment_structure"],
       [instruction_file |-> "payment.md", description |-> "Pay",
        tool_name |-> "complete_payment_structure", output_key |-> "paid"],
       [id |-> 3, instruction_file |-> "payment.md", description |-> "Pay",
        tool_name |-> "complete_payment_structure", output_key |-> "paid"] >>

\* the configurations: every list of at most MaxConfigStages of these entries
StageConfigs ==
    UNION { { [i \in 1..n |-> StageEntries[pick[i]]] :
                  pick \in [1..n -> 1..Len(StageEntries)] } : n \in 0..MaxConfigStages }

StartupFrame ==
    /\ ret' = NoReturn
    /\ pushed' = NoPush
    /\ UNCHANGED <<conn, rate_limit_store, current_time, attempts, agent_session, store, handlers, state, tasks, active_connections,
                   has_cleared_resuming,
                   accepted, acceptedSinceFinalize>>

\* importing consultant.py reads stages_config.json into STAGES_CONFIG
LoadStagesConfig == \E config \in StageConfigs :
    /\ startup.pc = "importing"
    /\ startup' = [pc |-> "loaded", STAGES_CONFIG |-> config, result |-> <<>>]
    /\ StartupFrame

\* a call of get_consultant_agent() (the factory, called for a new session)
GetConsultantAgent ==
    /\ startup.pc \in {"loaded", "called"}
    /\ startup' = [pc |-> "called", STAGES_CONFIG |-> startup.STAGES_CONFIG,
                   result |-> <<get_consultant_agent(startup.STAGES_CONFIG)>>]
    /\ startup' # startup
    /\ StartupFrame

\* Startup: the stage configuration is loaded and the consultant agent is assembled
NextStartup ==
    \/ LoadStagesConfig
    \/ GetConsultantAgent

SpecStartup == Init /\ [][NextStartup]_vars

\* Two sessions side by side.  Each tool call and each recorder run gets the state of
\* its own session (tool_context.state, callback_context.state); the registry and the
\* event loop's tasks are shared by the process.
SessionStageArgs == 0 .. (MaxSessionStage - 1)

SessionAgents == {"stage_0_agent"}

SessionEventLogs == {<<"user", "stage_0_agent">>}

SessionFrame ==
    UNCHANGED <<conn, rate_limit_store, current_time, attempts, agent_session, startup, handlers, state, has_cleared_resuming, accepted,
                acceptedSinceFinalize>>

\* the agent of session sid calls advance_stage, an event loop running
AdvanceStageIn(sid) == \E stage_index \in SessionStageArgs :
    LET r == advance_stage(store[sid], sid, stage_index, TRUE, FALSE)
    IN  /\ Len(tasks) + Len(r.tasks) <= MaxTasks
        /\ store' = [store EXCEPT ![sid] = r.state]
        /\ tasks' = tasks \o r.tasks
        /\ ret' = Returned(TRUE, "advance_stage", <<sid, stage_index>>, r.msg, r.raised)
        /\ pushed' = NoPush
        /\ UNCHANGED active_connections
        /\ SessionFrame

\* the agent of session sid calls finalize_discovery
FinalizeDiscoveryIn(sid) ==
    LET r == finalize_discovery(store[sid])
    IN  /\ store' = [store EXCEPT ![sid] = r.state]
        /\ store' # store
        /\ ret' = Returned(TRUE, "finalize_discovery", <<sid>>, r.msg, FALSE)
        /\ pushed' = NoPush
        /\ UNCHANGED <<conn, rate_limit_store, current_time, attempts, tasks, active_connections>>
        /\ SessionFrame

\* the engine runs stage_transition_callback after a turn of an agent of session sid
RecordStageIn(sid) ==
    \E agent_name \in SessionAgents, now \in Instants, authors \in SessionEventLogs :
        LET r == stage_transition_callback(store[sid], agent_name, now, authors)
        IN  /\ Get(store[sid], "turn_count", 0) < MaxTurns
            /\ store' = [store EXCEPT ![sid] = r.state]
            /\ ret' = Returned(TRUE, "stage_transition_callback", <<sid, agent_name>>, "",
                               r.raised)
            /\ pushed' = NoPush
            /\ UNCHANGED <<conn, rate_limit_store, current_time, attempts, tasks, active_connections>>
            /\ SessionFrame

NextSessions ==
    \/ \E sid \in RegistrySessionIds : AdvanceStageIn(sid)
    \/ \E sid \in RegistrySessionIds : FinalizeDiscoveryIn(sid)
    \/ \E sid \in RegistrySessionIds : RecordStageIn(sid)
    \/ RunPushTask
    \/ ConnectOf(RegistrySessionIds, TRUE)
    \/ DisconnectOf(RegistrySessionIds, TRUE)

SpecSessions == Init /\ [][NextSessions]_vars

\* run_agent has found or created the session: self.session is set
EstablishSession ==
    /\ ~agent_session.session
    /\ agent_session' = [agent_session EXCEPT !.session = TRUE]
    /\ ret' = NoReturn
    /\ pushed' = NoPush
    /\ UNCHANGED <<conn, rate_limit_store, current_time, attempts, store, startup, handlers, state, tasks, active_connections,
                   has_cleared_resuming, accepted, acceptedSinceFinalize>>

\* two frames of one kind that differ
Payloads == {1, 2}

\* receive_from_client takes the next message off the websocket
ReceiveFromClient == \E kind \in MessageKinds, payload \in Payloads, append_ok \in BOOLEAN :
    LET r == receive_from_client(agent_session.session, has_cleared_resuming, state, kind,
                                 append_ok)
    IN  /\ agent_session.receiving
        /\ state' = r.state
        /\ has_cleared_resuming' = r.has_cleared_resuming
        /\ agent_session' = [agent_session EXCEPT
                                 !.receiving = r.receiving,
                                 !.clears = IF r.appended /\ @ < 2 THEN @ + 1 ELSE @]
        /\ ret' = Returned(TRUE, "receive_from_client", <<kind, payload, append_ok>>, "",
                           FALSE)
        /\ pushed' = NoPush
        /\ UNCHANGED <<conn, rate_limit_store, current_time, attempts, store, startup, handlers, tasks, active_connections, accepted,
                       acceptedSinceFinalize>>

\* One connection of a session: its receive loop, its session being established, the
\* agent's advance_stage calls, and reconnection
NextResume ==
    \/ EstablishSession
    \/ ReceiveFromClient
    \/ AdvanceStage(SyncContexts, TRUE, FALSE)
    \/ Resume

SpecResume == Init /\ [][NextResume]_vars

\* the same, with run_agent and the receive loop running on: the event loop runs a
\* ready coroutine, and websocket.receive returns when a message has arrived
SpecResumeFair == SpecResume /\ WF_vars(EstablishSession) /\ WF_vars(ReceiveFromClient)

\* everything but the modelled connection and the registry
ConnectionFrame ==
    /\ pushed' = NoPush
    /\ UNCHANGED <<rate_limit_store, current_time, attempts, agent_session, store,
                   startup, handlers, state, tasks, has_cleared_resuming, accepted,
                   acceptedSinceFinalize>>

Ids(user_id, session_id, project_id) ==
    [NoIdentifiers EXCEPT !.user_id = user_id, !.session_id = session_id,
                          !.project_id = project_id]

\* a JSON object without identifiers and without "setup"
NoPayload == [ids |-> NoIdentifiers, setup |-> NoSetup]

\* JSON objects that are no setup messages, with identifiers at the top level: none,
\* one alone (two values of each), or several together
TopLevelPayloads ==
    { [ids |-> i, setup |-> NoSetup] :
          i \in { NoIdentifiers,
                  Ids("u1", "", ""), Ids("u2", "", ""),
                  Ids("", "s1", ""), Ids("", "s2", ""),
                  Ids("", "", "p1"), Ids("", "", "p2"),
                  Ids("", "s1", "p1"), Ids("u1", "s1", "p1"), Ids("u2", "s2", "p2") } }

\* setup messages: "setup" holds a dict with identifiers or something else, a user id
\* may stand at the top level too, and one setup names the user and the language
SetupPayloads ==
    { [ids |-> NoIdentifiers, setup |-> [kind |-> "dict", ids |-> i]] :
          i \in { NoIdentifiers, Ids("u1", "", ""), Ids("u1", "s1", ""),
                  Ids("u1", "", "p1"), Ids("u2", "s2", "p2"),
                  [Ids("u1", "", "") EXCEPT !.user_name = "Asha",
                                            !.user_language = "hi"] } }
    \cup { [ids |-> Ids("u2", "", ""), setup |-> [kind |-> k, ids |-> i]] :
               k \in {"dict", "other"}, i \in { Ids("u1", "s1", "p1") } }

\* the messages of a client as to identifiers: each accepted by the validation
IdentifierMessages ==
    { [kind |-> "json", payload |-> p, valid |-> TRUE] : p \in TopLevelPayloads }
    \cup { [kind |-> "setup", payload |-> p, valid |-> TRUE] : p \in SetupPayloads }
    \cup { [kind |-> k, payload |-> NoPayload, valid |-> TRUE] :
               k \in {"bytes", "list", "malformed", "disconnect"} }

\* the messages of a client as to forwarding: a setup naming the user, with or without
\* a session id, and messages of every kind that the validation accepts or not
ForwardingMessages ==
    { [kind |-> "setup", valid |-> TRUE,
       payload |-> [ids |-> NoIdentifiers,
                    setup |-> [kind |-> "dict", ids |-> Ids("u1", s, "")]]] :
          s \in {"", "s1"} }
    \cup { [kind |-> k, payload |-> NoPayload, valid |-> v] :
               k \in {"json", "bytes"}, v \in BOOLEAN }
    \cup { [kind |-> k, payload |-> NoPayload, valid |-> FALSE] :
               k \in {"list", "malformed", "disconnect"} }

\* receive_from_client takes the next message off the websocket; with the queues
\* kept, while fewer than MaxMessages messages have arrived
ReceiveMessage(messages, track) == \E message \in messages :
    /\ conn.receiving
    /\ track => Len(conn.received) < MaxMessages
    /\ conn' = receive_message(conn, message, track)
    /\ ret' = Returned(TRUE, "receive_from_client", <<message>>, "", FALSE)
    /\ UNCHANGED active_connections
    /\ ConnectionFrame

\* run_agent runs on from where it waits, the awaited call having one of the outcomes
RunAgentStep == \E outcome \in Outcomes :
    LET r == run_agent(conn, active_connections, outcome)
    IN  /\ conn.pc # "over"
        /\ conn.pc = "waiting" => conn.user_id_ready
        /\ conn' = r.self
        /\ active_connections' = r.conns
        /\ ret' = Returned(TRUE, "run_agent", <<conn.pc, outcome>>, "", FALSE)
        /\ ConnectionFrame

\* the handshake part of run_agent: every step but those of the live run, which lasts
\* as long as the runner's event stream does
HandshakeStep == conn.pc # "running" /\ RunAgentStep

\* the _forward_requests task gets the next request off the input queue
ForwardRequests ==
    /\ conn.forwarder = "running"
    /\ conn.input_queue # <<>>
    /\ conn' = _forward_requests(conn)
    /\ ret' = Returned(TRUE, "_forward_requests", <<Head(conn.input_queue).n>>, "", FALSE)
    /\ UNCHANGED active_connections
    /\ ConnectionFrame

\* One connection as to its identifiers, its handshake and its failures
NextConnection ==
    \/ ReceiveMessage(IdentifierMessages, FALSE)
    \/ RunAgentStep

SpecConnection == Init /\ [][NextConnection]_vars

\* One connection as to the requests it forwards to the agent
NextForwarding ==
    \/ ReceiveMessage(ForwardingMessages, TRUE)
    \/ RunAgentStep
    \/ ForwardRequests

SpecForwarding == Init /\ [][NextForwarding]_vars

\* the same, with run_agent running on through its handshake and the forwarder task
\* running on once a request is queued: the event loop runs a ready coroutine
SpecForwardingFair ==
    SpecForwarding /\ WF_vars(HandshakeStep) /\ WF_vars(ForwardRequests)

\* the clock moves on by a window's length, or by a second more
ClockSteps == {RATE_LIMIT_WINDOW, RATE_LIMIT_WINDOW + 1}

EndpointFrame ==
    /\ pushed' = NoPush
    /\ UNCHANGED <<conn, agent_session, store, startup, handlers, state, tasks,
                   active_connections, has_cleared_resuming, accepted,
                   acceptedSinceFinalize>>

Tick == \E d \in ClockSteps :
    /\ current_time + d <= MaxTime
    /\ current_time' = current_time + d
    /\ ret' = NoReturn
    /\ UNCHANGED <<rate_limit_store, attempts>>
    /\ EndpointFrame

RECURSIVE SumOver(_, _)
SumOver(f, S) ==
    IF S = {} THEN 0
    ELSE LET x == CHOOSE y \in S : TRUE IN Len(f[x]) + SumOver(f, S \ {x})

\* the connection attempts made so far, by all clients
AttemptsMade == SumOver(attempts, ClientIps)

\* a client at client_ip opens a websocket to /ws
WebsocketEndpoint == \E client_ip \in ClientIps :
    LET r == websocket_endpoint(rate_limit_store, client_ip, current_time)
    IN  /\ AttemptsMade < MaxAttempts
        /\ rate_limit_store' = r.rate_limit_store
        /\ attempts' = [attempts EXCEPT ![client_ip] =
                            Append(@, [time |-> current_time, accepted |-> r.accepted])]
        /\ ret' = Returned(TRUE, "websocket_endpoint", <<client_ip, r.close_code>>,
                           IF r.accepted THEN "accepted" ELSE "closed", FALSE)
        /\ UNCHANGED current_time
        /\ EndpointFrame

\* The websocket endpoint's rate limiting, with two client addresses
NextEndpoint ==
    \/ WebsocketEndpoint
    \/ Tick

SpecEndpoint == Init /\ [][NextEndpoint]_vars

\* One session's workflow: the tools called from a synchronous context, the recorder
\* and resumption
Next ==
    \/ AdvanceStage(SyncContexts, FALSE, FALSE)
    \/ CompleteTool(SyncContexts, FALSE, FALSE)
    \/ GetCurrentStage(FALSE)
    \/ FinalizeDiscovery(FALSE, FALSE)
    \/ WriteStageOutput
    \/ RecordStage(FALSE)
    \/ ClearResuming
    \/ Resume

Spec == Init /\ [][Next]_vars

\* advance_stage and the notification path of one session, return values observed
NextPush ==
    \/ AdvanceStage(ToolContexts, TRUE, FALSE)
    \/ FinalizeDiscovery(TRUE, FALSE)
    \/ RunPushTask
    \/ Connect
    \/ Disconnect
    \/ ClearResuming
    \/ Resume

SpecPush == Init /\ [][NextPush]_vars

\* The tools in every tool context and the pushes they schedule, with the history of
\* accepted advances kept
NextHistory ==
    \/ AdvanceStage(ToolContexts, FALSE, TRUE)
    \/ CompleteTool(ToolContexts, FALSE, TRUE)
    \/ GetCurrentStage(FALSE)
    \/ FinalizeDiscovery(FALSE, TRUE)
    \/ RunPushTask
    \/ ClearResuming
    \/ Resume

SpecHistory == Init /\ [][NextHistory]_vars

\* The recorder and the stage outputs it reads, return values observed
NextRecorder ==
    \/ WriteStageOutputOf(RecordedStages, RecordedOutputs)
    \/ RecordStageBy(RecordedStages, MaxRecordings, TRUE)

SpecRecorder == Init /\ [][NextRecorder]_vars

\* The stages whose output the recorder summarises as it stands
NarrativeStages == {"ProblemStatement", "SolutionVision"}

\* what the company stage can say: the full company name, its short form, the other
\* company, the first half of the full name, and no known name
CompanyTexts ==
    <<PyStr("NxtWave Disruptive Technologies trains students"),
      PyStr("NxtWave builds tech careers"),
      PyStr("Nestwave makes IoT applications"),
      PyStr("We are NxtWave"),
      PyStr("Acme sells paint")>>

\* what the company research can return: nothing, another company name, the second
\* half of the full name, and no known name
ResearchTexts ==
    <<PyStr(""), PyStr("Nestwave"), PyStr("Disruptive Technologies"),
      PyStr("Founded in 2020")>>

\* a first sentence of more than SummaryLength characters
LongNarrative ==
    "Every month the finance team copies the invoices of all four regional offices by hand from the old billing system into a shared spreadsheet and then checks each of them again. It takes days"

\* what a narrative stage can say: sentences, a first sentence in whitespace, a text
\* that starts with the full stop, only whitespace, no full stop, and a long sentence
NarrativeTexts ==
    <<PyStr("Billing is slow. Fix it"),
      PyStr("  Reports are manual \n. Staff retype them"),
      PyStr(". Nothing before"),
      PyStr("  "),
      PyStr("Train an ML model"),
      PyStr(LongNarrative)>>

\* the engine stores the search agent's answer under its output key
WriteResearchResults(outputs) == \E i \in 1..Len(outputs) :
    /\ state' = Put(state, "company_research_results", outputs[i])
    /\ state' # state
    /\ ret' = NoReturn
    /\ pushed' = NoPush
    /\ UNCHANGED <<conn, rate_limit_store, current_time, attempts, agent_session, store,
                   startup, handlers, tasks, active_connections, has_cleared_resuming,
                   accepted, acceptedSinceFinalize>>

\* The recorder after the company stage, with the research results next to its output
NextCompanyExtraction ==
    \/ WriteStageOutputOf({"CompanyContext"}, CompanyTexts)
    \/ WriteResearchResults(ResearchTexts)
    \/ RecordStageBy({"CompanyContext"}, MaxRecordings, TRUE)

SpecCompanyExtraction == Init /\ [][NextCompanyExtraction]_vars

\* The recorder after the narrative stages
NextNarrativeExtraction ==
    \/ WriteStageOutputOf(NarrativeStages, NarrativeTexts)
    \/ RecordStageBy(NarrativeStages, MaxTurns, TRUE)

SpecNarrativeExtraction == Init /\ [][NextNarrativeExtraction]_vars

\* The end of discovery: the stage-completion tools in every tool context and the
\* pushes they schedule, finalize_discovery, the recorder, the session's connection
\* and resumption, return values observed
NextCompletion ==
    \/ CompleteTool(ToolContexts, TRUE, FALSE)
    \/ FinalizeDiscovery(TRUE, FALSE)
    \/ RecordStage(TRUE)
    \/ RunPushTask
    \/ Connect
    \/ Disconnect
    \/ ClearResuming
    \/ Resume

SpecCompletion == Init /\ [][NextCompletion]_vars

\* The connection registry: the connections' run_agent handlers, their clients, and
\* pushes to any session id
NextRegistry ==
    \/ \E w \in WebSockets : Setup(w)
    \/ \E w \in WebSockets : Register(w)
    \/ \E w \in WebSockets : SendSetupComplete(w)
    \/ \E w \in WebSockets : SendSessionId(w)
    \/ \E w \in WebSockets : StopForwarding(w)
    \/ \E w \in WebSockets : ClientDisconnect(w)
    \/ PushTo

SpecRegistry == Init /\ [][NextRegistry]_vars

\* the same, with every handler running on once it can: the event loop runs a ready
\* coroutine, and the runner's event stream yields or ends
SpecRegistryFair == SpecRegistry /\ \A w \in WebSockets : WF_vars(HandlerStep(w))

----------------------------------------------------------------------------
(* Properties *)

\* the key current_stage_index was written with another value, or created
IndexWritten ==
    \/ ("current_stage_index" \in DOMAIN state') # ("current_stage_index" \in DOMAIN state)
    \/ Index(state') # Index(state)

\* the step was a call advance_stage(tool_context, n) (its return value is observed)
AdvanceReturned(n) == ret'.op = "advance_stage" /\ ret'.args = <<n>>

\* C1: an advance_stage call never lowers current_stage_index, and changes it only if
\* the asserted stage equals the persisted index when the call is made.
C1_AdvanceMonotone ==
    [][\A n \in StageArgs :
          AdvanceReturned(n) =>
              /\ Index(state') >= Index(state)
              /\ IndexWritten => n = Index(state)]_vars

\* a call asserting the last stage of the bound was accepted
C1_Witness ==
    /\ ret.op = "advance_stage" /\ ret.args = <<MaxStage - 1>>
    /\ Index(state) = MaxStage

\* C2 as stated: over the lifetime of a session, at most one advance asserting N is
\* accepted, for every N.
C2_AtMostOnceEver == \A n \in DOMAIN accepted : accepted[n] <= 1

\* C2, amended: between two runs of finalize_discovery at most one advance asserting N
\* is accepted, for every N; for N below the terminal value that is at most one over
\* the lifetime of the session.
C2_AtMostOncePerFinalize ==
    \A n \in DOMAIN accepted :
        /\ acceptedSinceFinalize[n] <= 1
        /\ n < TerminalStage => accepted[n] <= 1

\* the terminal stage was advanced from twice, with a finalize_discovery in between
C2_Witness ==
    /\ accepted[TerminalStage] = 2
    /\ acceptedSinceFinalize[TerminalStage] = 1
    /\ accepted[0] = 1

\* C3: with is_resuming false and the persisted index (0 when absent) equal to N,
\* advance_stage asserting N stores N+1 and returns a text containing
\* "Stage N advanced to N+1", also for N at or beyond the terminal stage.
C3_AdvanceByOne ==
    [][\A n \in StageArgs :
          (AdvanceReturned(n) /\ ~Resuming(state) /\ Index(state) = n) =>
              /\ "current_stage_index" \in DOMAIN state'
              /\ state'["current_stage_index"] = n + 1
              /\ ~ret'.raised
              /\ Contains(ret'.msg, "Stage " \o Str(n) \o " advanced to " \o Str(n + 1))]_vars

\* the advance from the terminal stage onward was made and reported
C3_Witness ==
    /\ Index(state) = TerminalStage + 1
    /\ Contains(ret.msg, "Stage 6 advanced to 7")

\* C4: while is_resuming is true, an advance_stage call leaves current_stage_index and
\* every other key of the session state unchanged (and schedules no push), whatever
\* stage it asserts.
C4_ResumingFrame ==
    [][\A n \in StageArgs :
          (AdvanceReturned(n) /\ Resuming(state)) =>
              /\ state' = state
              /\ tasks' = tasks]_vars

\* a call made during resumption on a finalized session, asserting the persisted index
C4_Witness ==
    /\ Resuming(state)
    /\ ret.op = "advance_stage" /\ ret.args = <<TerminalStage>>
    /\ Index(state) = TerminalStage
    /\ Get(state, "workflow_status", "") = "COMPLETED"

\* C5: with is_resuming false and an asserted stage different from the persisted index,
\* advance_stage changes nothing, schedules nothing, does not raise, and its text names
\* the asserted stage and the stage the project is already at.
C5_MismatchRejected ==
    [][\A n \in StageArgs :
          (AdvanceReturned(n) /\ ~Resuming(state) /\ Index(state) # n) =>
              /\ state' = state
              /\ tasks' = tasks
              /\ ~ret'.raised
              /\ Contains(ret'.msg, "complete Stage " \o Str(n) \o ",")
              /\ Contains(ret'.msg, "already at Stage " \o Str(Index(state)) \o ".")]_vars

\* stage 2 was asserted while the session is at stage 0
C5_Witness ==
    /\ ret.op = "advance_stage" /\ ret.args = <<2>>
    /\ Index(state) = 0 /\ ~Resuming(state)
    /\ Contains(ret.msg, "already at Stage 0")

\* the resumption note tells the caller to ignore completion signals and wait, and is
\* neither a mismatch note nor an advanced directive
ResumptionNoteDistinct ==
    /\ Contains(ResumptionNote, "ignore any previous completion signals")
    /\ Contains(ResumptionNote, "wait for their input")
    /\ ~Contains(ResumptionNote, "already at Stage")
    /\ ~Contains(ResumptionNote, "advanced to")

\* C6: whenever is_resuming is true, advance_stage returns the resumption note, which
\* is neither the mismatch note nor the advanced directive, whether or not the
\* asserted stage equals the persisted index.
C6_ResumingFirst ==
    [][\A n \in StageArgs :
          (AdvanceReturned(n) /\ Resuming(state)) =>
              /\ ret'.msg = ResumptionNote
              /\ ~ret'.raised
              /\ ResumptionNoteDistinct]_vars

\* a resuming call whose asserted stage matched the persisted index
C6_Witness ==
    /\ Resuming(state)
    /\ ret.op = "advance_stage" /\ ret.args = <<Index(state)>>
    /\ Index(state) = 2
    /\ ret.msg = ResumptionNote

\* no stage-completion tool is accepted on the session state st, in any tool context
CompletionToolsRejected(st) ==
    \A c \in ToolContexts :
        /\ complete_program_explanation(st, c[1], c[2], c[3]).state = st
        /\ complete_payment_structure(st, c[1], c[2], c[3]).state = st
        /\ complete_current_workflow(st, c[1], c[2], c[3]).state = st
        /\ complete_problem_statement(st, c[1], c[2], c[3]).state = st
        /\ complete_solution_vision(st, c[1], c[2], c[3]).state = st
        /\ complete_success_criteria(st, c[1], c[2], c[3]).state = st

\* the stage-completion tools take a fresh session up to the terminal value and no
\* further: on a finalized session none of them is accepted
TerminalBeyondCompletionTools ==
    /\ CompletionToolsRejected(finalize_discovery(EmptyDict).state)
    /\ ~CompletionToolsRejected(Put(EmptyDict, "current_stage_index", TerminalStage - 1))

\* C7: from any prior state, finalize_discovery leaves workflow_status COMPLETED,
\* discovery_completed true and current_stage_index at the one terminal value, which
\* lies beyond every stage a stage-completion tool completes (no such tool is accepted
\* there).
C7_FinalizeTerminal ==
    [][FinalizeDiscovery(FALSE, FALSE) =>
          /\ {"workflow_status", "discovery_completed", "current_stage_index"}
                 \subseteq DOMAIN state'
          /\ state'["workflow_status"] = "COMPLETED"
          /\ state'["discovery_completed"] = TRUE
          /\ state'["current_stage_index"] = TerminalStage
          /\ TerminalBeyondCompletionTools]_vars

\* a finalized session whose recorder had run and whose index is back at the terminal
\* value
C7_Witness ==
    /\ Get(state, "workflow_status", "") = "COMPLETED"
    /\ Get(state, "discovery_completed", FALSE)
    /\ Index(state) = TerminalStage
    /\ Get(state, "turn_count", 0) = 1
    /\ Resuming(state)

\* C8: in any interleaving of the tools, the recorder and the resumption clearing, a
\* step that lowers current_stage_index is a finalize_discovery, and a step that raises
\* it raises it by exactly one unless it is a finalize_discovery.
C8_OnlyFinalizeLowers ==
    [][/\ Index(state') < Index(state) => FinalizeDiscovery(FALSE, FALSE)
       /\ Index(state') > Index(state) =>
              \/ Index(state') = Index(state) + 1
              \/ FinalizeDiscovery(FALSE, FALSE)]_vars

\* the index was advanced past the terminal value after a finalize_discovery, in a
\* session whose recorder ran and whose resumption flag was cleared
C8_Witness ==
    /\ Index(state) = TerminalStage + 1
    /\ Get(state, "workflow_status", "") = "COMPLETED"
    /\ Get(state, "turn_count", 0) = 1
    /\ has_cleared_resuming

\* C9: an accepted advance_stage call stores the incremented index and returns the
\* advanced directive without raising in every tool context (no session id, no running
\* loop, scheduling raising or succeeding), and the push that runs later changes no
\* session state and raises nothing, whether the send succeeds, raises or finds no
\* connection.
C9_DeliveryIndependent ==
    [][/\ \A n \in StageArgs :
             (AdvanceReturned(n) /\ ~Resuming(state) /\ Index(state) = n) =>
                 \A c \in ToolContexts :
                     LET r == advance_stage(state, c[1], n, c[2], c[3])
                     IN  /\ r.state = Put(state, "current_stage_index", n + 1)
                         /\ r.msg = AdvancedNote(n, n + 1)
                         /\ ~r.raised
                         /\ state' = r.state
                         /\ ret'.msg = r.msg
                         /\ ~ret'.raised
       /\ RunPushTask => (state' = state /\ ~pushed'.raised /\ ~ret'.raised)]_vars

\* a push was attempted and the send raised, after the index had been advanced
C9_Witness ==
    /\ pushed.attempts # <<>>
    /\ pushed.delivered = <<>>
    /\ ~pushed.raised
    /\ Index(state) >= 1

\* On an accepted advance_stage step asserting n: in every tool context c the call
\* schedules the single push of the new index if due(c) and nothing otherwise, and
\* the step appended what the call scheduled in one of the contexts
PushScheduled(n, due(_)) ==
    /\ \A c \in ToolContexts :
           advance_stage(state, c[1], n, c[2], c[3]).tasks =
               IF due(c) THEN <<PushTask(c[1], n + 1)>> ELSE <<>>
    /\ \E c \in ToolContexts :
           tasks' = tasks \o advance_stage(state, c[1], n, c[2], c[3]).tasks

\* the coroutine run by this step sent exactly the stage_update message of its stage
PushCarriesStage ==
    RunPushTask =>
        \A i \in 1..Len(pushed'.delivered) :
            pushed'.delivered[i].message =
                [type |-> "stage_update", current_stage |-> Head(tasks).stage_index]

\* an event loop is running and the session has an id
LoopAndId(c) == c[2] /\ c[1] # NoSession

\* an event loop is running, the session has an id and scheduling does not raise
LoopAndIdAndNoRaise(c) == c[2] /\ c[1] # NoSession /\ ~c[3]

\* C10 as stated: a push is scheduled exactly when the call is accepted, a loop is
\* running and the session has an id.
C10_PushExactlyWhen ==
    [][\A n \in StageArgs :
          AdvanceReturned(n) =>
              IF ~Resuming(state) /\ Index(state) = n
              THEN PushScheduled(n, LoopAndId)
              ELSE tasks' = tasks]_vars

\* C10, amended: a push is scheduled exactly when the call is accepted, a loop is
\* running, the session has an id and scheduling itself does not raise; it is one push
\* carrying {type: "stage_update", current_stage: <the new index>}; rejected and
\* resumption-blocked calls schedule none; the index is incremented whether or not a
\* push is scheduled.
C10_PushWhenSchedulable ==
    [][/\ \A n \in StageArgs :
             AdvanceReturned(n) =>
                 IF ~Resuming(state) /\ Index(state) = n
                 THEN /\ PushScheduled(n, LoopAndIdAndNoRaise)
                      /\ Index(state') = n + 1
                 ELSE tasks' = tasks
       /\ PushCarriesStage]_vars

\* the push scheduled by the advance from stage 2 delivered current_stage 3
C10_Witness ==
    /\ Len(pushed.delivered) = 1
    /\ pushed.delivered[1].message = [type |-> "stage_update", current_stage |-> 3]
    /\ Index(state) = 3

----------------------------------------------------------------------------
(* Properties of the connection registry *)

\* the step was a call send_stage_update(sid, _) (send_json underneath)
PushReturned(sid) == ret'.op = "send_stage_update" /\ ret'.args[1] = sid

\* the registry holds w for the session id of w's handler
EntryOf(w) ==
    /\ handlers[w].session_id \in DOMAIN active_connections
    /\ active_connections[handlers[w].session_id] = w

\* C11: once connection B is registered for a session id that A was registered for,
\* the registry holds B, a send_json to that id is attempted and delivered on the
\* registered handle only, and the registration closes nothing: no other connection's
\* handler or client state changes.
C11_LatestRegistrationReceives ==
    [][/\ \A w \in WebSockets :
             Register(w) =>
                 /\ handlers[w].session_id \in DOMAIN active_connections'
                 /\ active_connections'[handlers[w].session_id] = w
                 /\ \A o \in WebSockets \ {w} : handlers'[o] = handlers[o]
       /\ \A sid \in RegistrySessionIds :
             (PushReturned(sid) /\ sid \in DOMAIN active_connections) =>
                 /\ pushed'.attempts = <<active_connections[sid]>>
                 /\ \A i \in 1..Len(pushed'.delivered) :
                        pushed'.delivered[i].websocket = active_connections[sid]]_vars

\* wsA and wsB registered the same session id, wsA is still open and serving, and a
\* push to the session went to wsB
C11_Witness ==
    /\ handlers["wsA"].pc = "serving" /\ handlers["wsA"].open
    /\ handlers["wsB"].pc \in Registered
    /\ handlers["wsA"].session_id = handlers["wsB"].session_id
    /\ Len(pushed.delivered) = 1
    /\ pushed.delivered[1].websocket = "wsB"

\* C12: send_stage_update / send_json for a session id without a registry entry
\* attempts no send on any connection, leaves the registry unchanged and does not
\* raise.
C12_UnregisteredPushIsNoOp ==
    [][\A sid \in RegistrySessionIds :
          (PushReturned(sid) /\ sid \notin DOMAIN active_connections) =>
              /\ pushed'.attempts = <<>>
              /\ pushed'.delivered = <<>>
              /\ ~pushed'.raised
              /\ ~ret'.raised
              /\ active_connections' = active_connections]_vars

\* a push to s2 while only s1 is registered
C12_Witness ==
    /\ ret.op = "send_stage_update" /\ ret.args[1] = "s2"
    /\ DOMAIN active_connections = {"s1"}
    /\ pushed.attempts = <<>>

\* C13: when the websocket send of a registered connection fails, send_json has
\* attempted exactly one send, delivers nothing, does not raise, and the entry of the
\* session stays in the registry.
C13_SendFailureCaught ==
    [][\A sid \in RegistrySessionIds, k \in PushStages :
          (PushToCall(sid, k, FALSE) /\ sid \in DOMAIN active_connections) =>
              /\ Len(pushed'.attempts) = 1
              /\ pushed'.delivered = <<>>
              /\ ~pushed'.raised
              /\ ~ret'.raised
              /\ sid \in DOMAIN active_connections'
              /\ active_connections'[sid] = active_connections[sid]]_vars

\* a push to a registered session whose client is gone: one attempt, nothing delivered
C13_Witness ==
    /\ ret.op = "send_stage_update"
    /\ ret.args[1] \in DOMAIN active_connections
    /\ ~handlers[active_connections[ret.args[1]]].open
    /\ Len(pushed.attempts) = 1
    /\ pushed.delivered = <<>>

\* C14: disconnect(S), as run by a handler's teardown, leaves no entry for S, changes
\* nothing when there was none, leaves every other session id's entry as it was, and
\* running it again changes nothing more.
C14_DisconnectFrame ==
    [][\A w \in WebSockets :
          StopForwarding(w) =>
              LET sid == handlers[w].session_id
              IN  /\ sid \notin DOMAIN active_connections'
                  /\ DOMAIN active_connections' = DOMAIN active_connections \ {sid}
                  /\ \A o \in DOMAIN active_connections' :
                         active_connections'[o] = active_connections[o]
                  /\ sid \notin DOMAIN active_connections
                         => active_connections' = active_connections
                  /\ disconnect(active_connections', sid) = active_connections']_vars

\* wsA's teardown unregistered s1 while wsB stays registered under s2
C14_Witness ==
    /\ handlers["wsA"].pc = "done" /\ handlers["wsA"].session_id = "s1"
    /\ handlers["wsB"].pc = "serving" /\ handlers["wsB"].session_id = "s2"
    /\ DOMAIN active_connections = {"s2"}
    /\ active_connections["s2"] = "wsB"

\* C15: the registry holds at most one handle per session id, and every handle it
\* holds is that of a connection whose run_agent has registered it and has not ended.
C15_RegistryHoldsLiveHandles ==
    \A sid \in DOMAIN active_connections :
        /\ active_connections[sid] \in WebSockets
        /\ handlers[active_connections[sid]].pc \in Registered
        /\ handlers[active_connections[sid]].session_id = sid

\* C16: once the client of a registered connection has disconnected, the entry that
\* connection created is eventually out of the registry; and no step of a handler or
\* of a client changes the session state.
C16_DisconnectUnregisters ==
    /\ \A w \in WebSockets :
           (handlers[w].pc \in Registered \cup {"done"} /\ ~handlers[w].open /\ EntryOf(w))
               ~> ~EntryOf(w)
    /\ [][(\E w \in WebSockets : HandlerStep(w) \/ ClientDisconnect(w))
              => state' = state]_vars

----------------------------------------------------------------------------
(* Properties of the stage-transition recorder *)

\* the step was a run of stage_transition_callback for the agent a
RecorderReturned(a) == ret'.op = "stage_transition_callback" /\ ret'.args[1] = a

\* a key of the recorder's bookkeeping, read as the recorder's scaffolding would
\* create it when absent
Extracted(st) == Get(st, "extracted_data", EmptyDict)

Completion(st) == Get(st, "stage_completion", EmptyDict)

\* the facts the recorder extracts for the agent a in the session state st
FactsFor(st, a) == _extract_key_facts_for_stage(_initialize_state_structure(st), a)

\* the output key of the known stage a is absent from st or holds the empty text
OutputMissing(st, a) ==
    \/ output_key_map[a] \notin DOMAIN st
    \/ st[output_key_map[a]] = PyStr("")

\* the step recorded the completion of a: completed is true, the stage name is
\* current, and one more turn is counted
Recorded(a) ==
    /\ a \in DOMAIN Completion(state')
    /\ Completion(state')[a].completed = TRUE
    /\ \A o \in DOMAIN Completion(state) \ {a} :
           o \in DOMAIN Completion(state') /\ Completion(state')[o] = Completion(state)[o]
    /\ Get(state', "current_stage_name", "") = a
    /\ Get(state', "turn_count", 0) = Get(state, "turn_count", 0) + 1

\* C17: when the output key of a known stage is absent or holds an empty value, the
\* extraction yields no facts and does not raise, extracted_data keeps its contents,
\* and stage_completion[stage].completed is set to true all the same.
C17_MissingOutputStillCompletes ==
    [][\A a \in RecordedStages \cap DOMAIN output_key_map :
          (RecorderReturned(a) /\ OutputMissing(state, a)) =>
              /\ FactsFor(state, a) = [facts |-> EmptyDict, raised |-> FALSE]
              /\ ~ret'.raised
              /\ Extracted(state') = Extracted(state)
              /\ a \in DOMAIN Completion(state')
              /\ Completion(state')[a].completed = TRUE]_vars

\* ProblemStatement was recorded with its output key absent, after another stage had
\* left a fact
C17_Witness ==
    /\ ret.op = "stage_transition_callback" /\ ret.args[1] = "ProblemStatement"
    /\ "problem_statement" \notin DOMAIN state
    /\ "ProblemStatement" \in DOMAIN Completion(state)
    /\ Completion(state)["ProblemStatement"].completed
    /\ DOMAIN Extracted(state) = {"signoff_confirmed"}

\* C18 as stated: for a stage name without an entry in the output-key table the
\* recorder leaves extracted_data, stage_completion, current_stage_name and turn_count
\* as they were and raises no error.
C18_UnknownStageUntouched ==
    [][\A a \in RecordedStages \ DOMAIN output_key_map :
          RecorderReturned(a) =>
              /\ ~ret'.raised
              /\ Extracted(state') = Extracted(state)
              /\ Completion(state') = Completion(state)
              /\ Get(state', "current_stage_name", "") = Get(state, "current_stage_name", "")
              /\ Get(state', "turn_count", 0) = Get(state, "turn_count", 0)]_vars

\* C18, amended: for a stage name without an entry in the output-key table the
\* extraction yields no facts, no error is raised and extracted_data keeps its
\* contents; the recorder still sets stage_completion[name].completed, makes the name
\* current_stage_name and increments turn_count.
C18_UnknownStageRecordedWithoutFacts ==
    [][\A a \in RecordedStages \ DOMAIN output_key_map :
          RecorderReturned(a) =>
              /\ FactsFor(state, a) = [facts |-> EmptyDict, raised |-> FALSE]
              /\ ~ret'.raised
              /\ Extracted(state') = Extracted(state)
              /\ Recorded(a)]_vars

\* stage_0_agent, which the table does not know, was recorded after ProblemStatement
C18_Witness ==
    /\ ret.op = "stage_transition_callback" /\ ret.args[1] = "stage_0_agent"
    /\ Get(state, "current_stage_name", "") = "stage_0_agent"
    /\ DOMAIN Completion(state) = {"ProblemStatement", "stage_0_agent"}
    /\ Get(state, "turn_count", 0) = 2
    /\ DOMAIN Extracted(state) = {"problem_summary"}

\* C19: whatever value is stored under a stage's output key, text or not,
\* stage_transition_callback does not raise, marks the stage completed and increments
\* turn_count.
C19_RecorderNeverRaises ==
    [][\A a \in RecordedStages :
          RecorderReturned(a) => (~ret'.raised /\ Recorded(a))]_vars

\* C20: a run of the recorder merges its facts into extracted_data: the keys
\* afterwards are the previous keys and the keys of this run's facts, each key of this
\* run holds this run's value, every other key keeps its value; and no step removes a
\* key of extracted_data.
C20_FactsMerged ==
    [][/\ \A a \in RecordedStages :
             (RecorderReturned(a) /\ ~ret'.raised) =>
                 LET facts == FactsFor(state, a).facts
                 IN  /\ DOMAIN Extracted(state') = DOMAIN Extracted(state) \cup DOMAIN facts
                     /\ \A key \in DOMAIN facts : Extracted(state')[key] = facts[key]
                     /\ \A key \in DOMAIN Extracted(state) \ DOMAIN facts :
                            Extracted(state')[key] = Extracted(state)[key]
       /\ DOMAIN Extracted(state) \subseteq DOMAIN Extracted(state')]_vars

\* ProblemStatement was recorded with a second, different output after GenerationSignoff
\* had been recorded in between: the later summary stands and the sign-off is kept
C20_Witness ==
    /\ ret.op = "stage_transition_callback" /\ ret.args[1] = "ProblemStatement"
    /\ Get(state, "turn_count", 0) = 3
    /\ DOMAIN Completion(state) = {"ProblemStatement", "GenerationSignoff"}
    /\ DOMAIN Extracted(state) = {"problem_summary", "signoff_confirmed"}
    /\ Extracted(state)["problem_summary"] = "Reports are manual"
    /\ state["problem_statement"] = PyStr("Reports are manual")

----------------------------------------------------------------------------
(* Properties of the recorder within the workflow *)

ScaffoldingKeys == {"extracted_data", "stage_completion", "workflow_status", "turn_count"}

ScaffoldingDefaults ==
    [extracted_data |-> EmptyDict, stage_completion |-> EmptyDict,
     workflow_status |-> "IN_PROGRESS", turn_count |-> 0]

\* C21: the scaffolding initialization creates extracted_data, stage_completion,
\* workflow_status (IN_PROGRESS) and turn_count (0) only where the key is absent and
\* keeps every existing value, applying it twice equals applying it once, and a
\* recorder run in a session whose workflow_status is COMPLETED leaves it COMPLETED.
C21_InitializationIdempotent ==
    /\ [](LET s1 == _initialize_state_structure(state)
          IN  /\ _initialize_state_structure(s1) = s1
              /\ DOMAIN s1 = DOMAIN state \cup ScaffoldingKeys
              /\ \A key \in DOMAIN state : s1[key] = state[key]
              /\ \A key \in ScaffoldingKeys \ DOMAIN state :
                     s1[key] = ScaffoldingDefaults[key])
    /\ [][(/\ Get(state, "workflow_status", "") = "COMPLETED"
           /\ Get(state', "turn_count", 0) = Get(state, "turn_count", 0) + 1)
              => Get(state', "workflow_status", "") = "COMPLETED"]_vars

\* the recorder has run in a session that finalize_discovery completed
C21_Witness ==
    /\ Get(state, "workflow_status", "") = "COMPLETED"
    /\ Get(state, "discovery_completed", FALSE)
    /\ Get(state, "turn_count", 0) = 1
    /\ "stage_0_agent" \in DOMAIN Get(state, "stage_completion", EmptyDict)

\* the number of session events authored by agent_name
EventCount(authors, agent_name) ==
    Cardinality({i \in 1..Len(authors) : authors[i] = agent_name})

\* C22: every invocation of the recorder for a stage increments turn_count by exactly
\* 1, sets current_stage_name to the stage and records stage_completion[stage] with
\* completed true and event_count equal to the number of session events the stage
\* authored, leaving the records of other stages as they were; no other step changes
\* turn_count, so after k invocations it is its initial value plus k.
C22_EveryInvocationRecorded ==
    [][/\ \A a \in RecordedStages :
             RecorderReturned(a) =>
                 /\ Recorded(a)
                 /\ Completion(state')[a].event_count = EventCount(ret'.args[2], a)
       /\ ret'.op # "stage_transition_callback"
             => Get(state', "turn_count", 0) = Get(state, "turn_count", 0)]_vars

\* the same for the invocations that return: the part of C22 that holds
RecordedWhenReturning ==
    [][/\ \A a \in RecordedStages :
             (RecorderReturned(a) /\ ~ret'.raised) =>
                 /\ Recorded(a)
                 /\ Completion(state')[a].event_count = EventCount(ret'.args[2], a)
       /\ (ret'.op # "stage_transition_callback" \/ ret'.raised)
             => Get(state', "turn_count", 0) = Get(state, "turn_count", 0)]_vars

----------------------------------------------------------------------------
(* Properties of the stage configuration *)

\* The problems of a configuration that concern the instruction file or the tool: the
\* entry's position and the field at fault
FileProblem(stage) ==
    \/ "instruction_file" \notin DOMAIN stage
    \/ stage["instruction_file"] \notin InstructionFiles

ToolProblem(stage) ==
    \/ "tool_name" \notin DOMAIN stage
    \/ stage["tool_name"] \notin {"complete_program_explanation", "complete_payment_structure"}

Problems(config) ==
    {<<i, "instruction_file">> : i \in {j \in 1..Len(config) : FileProblem(config[j])}}
        \cup {<<i, "tool_name">> : i \in {j \in 1..Len(config) : ToolProblem(config[j])}}

\* str.startswith
StartsWith(text, prefix) ==
    /\ Len(text) >= Len(prefix)
    /\ SubSeq(text, 1, Len(prefix)) = prefix

\* the lines of the error message that list a problem
ListedProblems(error_message) ==
    LET lines == Split(error_message, "\n")
    IN  {i \in 1..Len(lines) : StartsWith(lines[i], "  - ")}

\* line speaks of the problem in field `field` of the stage entry `stage`
Lists(line, stage, field) ==
    /\ StartsWith(line, "  - Stage " \o StageIdText(stage) \o ":")
    /\ IF field = "instruction_file"
       THEN Contains(line, "'instruction_file'") \/ Contains(line, "Instruction ")
       ELSE Contains(line, "'tool_name'") \/ Contains(line, "Tool '")

\* C23: validation looks at every stage entry before it raises: with k >= 1 problems
\* across the entries it raises one error whose message lists k problems, each
\* problem of each entry among them, and with none it raises nothing;
\* get_consultant_agent ends with that one error and no agent constructed whenever
\* validation raises, and constructs agents only when validation has passed.
C23_ValidationAggregates ==
    startup.pc # "importing" =>
        LET config == startup.STAGES_CONFIG
            v == validate_stage_config(config)
            lines == Split(v.error_message, "\n")
        IN  /\ v.raised <=> Problems(config) # {}
            /\ ~v.raised => v.error_message = ""
            /\ v.raised =>
                   /\ Cardinality(ListedProblems(v.error_message)) = Cardinality(Problems(config))
                   /\ \A p \in Problems(config) :
                          \E i \in ListedProblems(v.error_message) :
                              Lists(lines[i], config[p[1]], p[2])
            /\ startup.pc = "called" =>
                   LET r == startup.result[1]
                   IN  /\ r.outcome = "ValueError" <=> v.raised
                       /\ r.outcome = "ValueError" =>
                              r.error = v.error_message /\ r.sub_agents = <<>>
                       /\ r.sub_agents # <<>> => ~v.raised

\* get_consultant_agent was called on two entries with three problems between them
\* (no instruction file in the first; a missing file and an unregistered tool in the
\* second) and raised the validation error
C23_Witness ==
    /\ startup.pc = "called"
    /\ Len(startup.STAGES_CONFIG) = 2
    /\ Problems(startup.STAGES_CONFIG) =
           {<<1, "instruction_file">>, <<2, "instruction_file">>, <<2, "tool_name">>}
    /\ startup.result[1].outcome = "ValueError"
    /\ Cardinality(ListedProblems(startup.result[1].error)) = 3

RequiredFields == {"id", "instruction_file", "description", "tool_name", "output_key"}

\* the stage-definition invariants: every entry has every required field, the ids are
\* 0, 1, 2, ... in order, every tool_name is registered, every instruction_file exists
WellFormed(config) ==
    \A i \in 1..Len(config) :
        /\ RequiredFields \subseteq DOMAIN config[i]
        /\ config[i]["id"] = i - 1
        /\ ~FileProblem(config[i])
        /\ ~ToolProblem(config[i])

\* C24: every configuration that violates a stage-definition invariant (ids not
\* contiguous from 0, an entry without one of the required fields, an unregistered
\* tool_name, an instruction_file that does not exist) makes validate_stage_config
\* raise.
C24_ViolationsRejected ==
    (startup.pc # "importing" /\ ~WellFormed(startup.STAGES_CONFIG))
        => validate_stage_config(startup.STAGES_CONFIG).raised

\* what validation does reject: a missing or unusable instruction_file or tool_name
RejectedByValidation ==
    startup.pc # "importing" =>
        (validate_stage_config(startup.STAGES_CONFIG).raised
             <=> \E i \in 1..Len(startup.STAGES_CONFIG) :
                     \/ FileProblem(startup.STAGES_CONFIG[i])
                     \/ ToolProblem(startup.STAGES_CONFIG[i]))

----------------------------------------------------------------------------
(* Properties of reconnection, users and sessions *)

\* the registry holds w for the session id of w's handler, after the step
EntryOfAfter(w) ==
    /\ handlers'[w].session_id \in DOMAIN active_connections'
    /\ active_connections'[handlers'[w].session_id] = w

\* C25: when connection B holds the registry entry of a session and its handler is
\* running, the teardown of another connection A does not remove that entry, and a
\* push for the session is attempted on B.
C25_TeardownSparesNewerEntry ==
    [][\A b \in WebSockets :
          (handlers[b].pc \in Registered /\ EntryOf(b)) =>
              /\ \A a \in WebSockets \ {b} : StopForwarding(a) => EntryOfAfter(b)
              /\ PushReturned(handlers[b].session_id) => pushed'.attempts = <<b>>]_vars

\* C26: a stage_update for the session a user's connection is serving is delivered
\* only to connections whose handshake named that user, and a connection of another
\* user registering the same session id does not displace the user's registry entry.
C26_PushesStayWithUser ==
    [][/\ \A w \in WebSockets :
             (handlers[w].pc = "serving" /\ PushReturned(handlers[w].session_id)) =>
                 \A i \in 1..Len(pushed'.delivered) :
                     handlers[pushed'.delivered[i].websocket].user_id = handlers[w].user_id
       /\ \A w \in WebSockets :
             (/\ Register(w)
              /\ handlers[w].session_id \in DOMAIN active_connections
              /\ handlers[active_connections[handlers[w].session_id]].user_id
                     # handlers[w].user_id)
                 => active_connections' = active_connections]_vars

\* the step was a tool call or a recorder run of session sid
SessionReturned(sid) ==
    /\ ret'.op \in {"advance_stage", "finalize_discovery", "stage_transition_callback"}
    /\ ret'.args[1] = sid

\* the step ran the oldest scheduled push task
PushTaskRan == tasks # <<>> /\ tasks' = Tail(tasks) /\ ret'.op = "none"

\* C27: advance_stage, finalize_discovery and the recorder running for one session
\* leave the state of every other session as it was, and a push for a session id is
\* attempted on no connection registered under another session id.
C27_SessionsIsolated ==
    [][/\ \A sid \in RegistrySessionIds :
             SessionReturned(sid) =>
                 \A o \in RegistrySessionIds \ {sid} : store'[o] = store[o]
       /\ PushTaskRan =>
             \A b \in DOMAIN active_connections \ {Head(tasks).session_id} :
                 \A i \in 1..Len(pushed'.attempts) :
                     pushed'.attempts[i] # active_connections[b]]_vars

\* s1 advanced to stage 1 and its push was delivered on wsA while s2, finalized and
\* recorded, is registered on wsB
C27_Witness ==
    /\ Index(store["s1"]) = 1
    /\ Get(store["s2"], "workflow_status", "") = "COMPLETED"
    /\ Get(store["s2"], "turn_count", 0) = 1
    /\ "turn_count" \notin DOMAIN store["s1"]
    /\ active_connections = [sid \in RegistrySessionIds |->
                                 IF sid = "s1" THEN "wsA" ELSE "wsB"]
    /\ Len(pushed.delivered) = 1
    /\ pushed.delivered[1].websocket = "wsA"
    /\ pushed.delivered[1].message = StageUpdate(1)

\* C28: an accepted advance schedules the push by session id whatever the registry
\* holds; registering or unregistering afterwards neither drops the task nor changes
\* the advanced index; when the task runs it is attempted on the connection registered
\* for the session at that moment, and with none registered it sends nothing, raises
\* nothing and leaves current_stage_index advanced.
C28_TargetResolvedWhenTaskRuns ==
    [][/\ \A sid \in RegistrySessionIds, n \in SessionStageArgs :
             (ret'.op = "advance_stage" /\ ret'.args = <<sid, n>> /\ store'[sid] # store[sid])
                 => /\ Index(store'[sid]) = n + 1
                    /\ tasks' = Append(tasks, PushTask(sid, n + 1))
       /\ ret'.op \in {"connect", "disconnect"} => (tasks' = tasks /\ store' = store)
       /\ PushTaskRan =>
             LET t == Head(tasks)
             IN  /\ store' = store
                 /\ active_connections' = active_connections
                 /\ IF t.session_id \in DOMAIN active_connections
                    THEN pushed'.attempts = <<active_connections[t.session_id]>>
                    ELSE pushed' = NoPush]_vars

\* the push task of s1's accepted advance has just run (no task is pending and the
\* last step was no tool call) while only s2 was registered: nothing was sent, and the
\* index of s1 stays advanced
C28_Witness ==
    /\ Index(store["s1"]) = 1
    /\ "current_stage_index" \notin DOMAIN store["s2"]
    /\ tasks = <<>>
    /\ ret.op = "none"
    /\ DOMAIN active_connections = {"s2"}
    /\ active_connections["s2"] = "wsB"
    /\ pushed = NoPush

----------------------------------------------------------------------------
(* Properties of resumption *)

\* the last step received a message of one of `kinds`, the store ready to accept an append
Received(kinds) ==
    /\ ret.op = "receive_from_client"
    /\ ret.args[1] \in kinds
    /\ ret.args[3]

\* is_resuming is false and an advance_stage call asserting the current stage would be
\* accepted
AdvanceOpen ==
    /\ ~Resuming(state)
    /\ advance_stage(state, "s1", Index(state), FALSE, FALSE).state # state

ReceiveReturned(kind) == ret'.op = "receive_from_client" /\ ret'.args[1] = kind

\* C30: a connection appends at most one clearing event; has_cleared_resuming becomes
\* true only on a JSON message whose clearing event the store accepted, and no clearing
\* event is appended once it is true; a failed append changes nothing, so that the
\* next eligible message with the store accepting appends the event; setup messages,
\* binary frames and messages received before the session object exists append nothing.
C30_OneClearingEvent ==
    /\ [](agent_session.clears <= 1)
    /\ [][/\ (has_cleared_resuming' /\ ~has_cleared_resuming) =>
                 /\ ReceiveReturned("json") /\ ret'.args[3]
                 /\ agent_session'.clears = agent_session.clears + 1
                 /\ ~Resuming(state')
          /\ has_cleared_resuming => agent_session'.clears <= agent_session.clears
          /\ (ReceiveReturned("json") /\ ~ret'.args[3]) =>
                 (state' = state /\ has_cleared_resuming' = has_cleared_resuming)
          /\ (/\ ReceiveReturned("json") /\ ret'.args[3]
              /\ ~has_cleared_resuming /\ agent_session.session /\ Resuming(state))
                 => (agent_session'.clears = 1 /\ has_cleared_resuming' /\ ~Resuming(state'))
          /\ (/\ ret'.op = "receive_from_client"
              /\ ret'.args[1] \in {"setup", "bytes"} \/ ~agent_session.session)
                 => /\ agent_session'.clears = agent_session.clears
                    /\ state' = state
                    /\ has_cleared_resuming' = has_cleared_resuming]_vars

\* the connection's one clearing event has been appended, and a further JSON message
\* was received since
C30_Witness ==
    /\ agent_session.clears = 1
    /\ has_cleared_resuming
    /\ ~Resuming(state)
    /\ ret.op = "receive_from_client" /\ ret.args = <<"json", 2, FALSE>>
    /\ agent_session.session

----------------------------------------------------------------------------
(* Properties of the finalized workflow *)

Finalized(st) == Get(st, "workflow_status", "") = "COMPLETED"

CompletionOps ==
    {"complete_program_explanation", "complete_payment_structure",
     "complete_current_workflow", "complete_problem_statement",
     "complete_solution_vision", "complete_success_criteria"}

\* the step is a call of a stage-completion tool on a finalized session
CompletionAfterFinalize == Finalized(state) /\ ret'.op \in CompletionOps

\* once finalized, a session stays finalized with its index at or past the terminal
\* value
StaysFinalized ==
    Finalized(state) => Finalized(state') /\ Index(state') >= TerminalStage

\* C31 as stated: once finalize_discovery has run, each of the six stage-completion
\* tools leaves the session state unchanged and is rejected as a stale call (the
\* mismatch note naming its stage and the current index), and workflow_status stays
\* COMPLETED.
C31_RejectedAsStale ==
    [][/\ StaysFinalized
       /\ CompletionAfterFinalize =>
              /\ state' = state
              /\ ~ret'.raised
              /\ ret'.msg = MismatchNote(ret'.args[1], Index(state))]_vars

\* C31: once finalize_discovery has run, each of the six stage-completion tools leaves
\* the session state unchanged and is rejected: with the resumption note while
\* is_resuming is set, as a stale call (the mismatch note) otherwise; workflow_status
\* stays COMPLETED and the index stays at or past the terminal value.
C31_RejectedAfterFinalize ==
    [][/\ StaysFinalized
       /\ CompletionAfterFinalize =>
              /\ state' = state
              /\ ~ret'.raised
              /\ ret'.msg = IF Resuming(state) THEN ResumptionNote
                            ELSE MismatchNote(ret'.args[1], Index(state))]_vars

\* the last stage's completion tool was called on a finalized session after the
\* recorder had run there, and got the mismatch note
C31_Witness ==
    /\ Finalized(state)
    /\ ~Resuming(state)
    /\ Get(state, "turn_count", 0) = 1
    /\ ret.op = "complete_success_criteria"
    /\ ret.msg = MismatchNote(5, TerminalStage)

----------------------------------------------------------------------------
(* Properties of finalize_discovery's frame *)

\* the keys finalize_discovery assigns
FinalizeKeys == {"workflow_status", "discovery_completed", "current_stage_index"}

\* C32: a finalize_discovery call writes only workflow_status, discovery_completed and
\* current_stage_index: every other key of the session state (is_resuming,
\* extracted_data, stage_completion, turn_count among them) keeps its presence and its
\* value, the registry is untouched, no push coroutine is scheduled and nothing is
\* sent to a connection.
C32_FinalizeFrame ==
    [][ret'.op = "finalize_discovery" =>
          /\ DOMAIN state' = (DOMAIN state) \cup FinalizeKeys
          /\ \A k \in (DOMAIN state) \ FinalizeKeys : state'[k] = state[k]
          /\ active_connections' = active_connections
          /\ tasks' = tasks
          /\ pushed' = NoPush]_vars

\* finalize_discovery ran on a resumed session at stage 1 whose recorder had run and
\* whose client is connected: the index jumped to the terminal value and the only
\* push waiting is the earlier one for stage 1
C32_Witness ==
    /\ ret.op = "finalize_discovery"
    /\ Index(state) = TerminalStage
    /\ Resuming(state)
    /\ Get(state, "turn_count", 0) = 1
    /\ {"extracted_data", "stage_completion"} \subseteq DOMAIN state
    /\ "s1" \in DOMAIN active_connections
    /\ tasks = <<PushTask("s1", 1)>>

----------------------------------------------------------------------------
(* Properties of a connection's identifiers and handshake *)

IdentifierFields == {"user_id", "session_id", "project_id"}

\* the step is an iteration of the receive loop on the message ret'.args[1]
MessageReceived == ret'.op = "receive_from_client"

\* what a message carries for an identifier: the top level first, then a setup dict
Carried(message, field) ==
    IF message.kind \in {"setup", "json"}
    THEN Or(message.payload.ids[field],
            IF message.payload.setup.kind = "dict"
            THEN message.payload.setup.ids[field] ELSE "")
    ELSE ""

\* C33: a message never changes an identifier (user_id, session_id, project_id) that
\* is set; a message carrying a project_id and no session_id sets an unset session_id
\* to the project_id; user_id_ready is set exactly when user_id is set; and the id
\* passed to disconnect at teardown is the id that was passed to connect, which is
\* the connection's session_id throughout.
C33_FirstWriteWins ==
    /\ [](conn.user_id_ready <=> conn.user_id # "")
    /\ [](conn.registered # "" => conn.session_id = conn.registered)
    /\ [](conn.unregistered # "" => conn.unregistered = conn.registered)
    /\ [][MessageReceived =>
              /\ \A f \in IdentifierFields : conn[f] # "" => conn'[f] = conn[f]
              /\ \A f \in IdentifierFields :
                     conn[f] = "" /\ Carried(ret'.args[1], f) # "" /\ f # "session_id"
                         => conn'[f] = Carried(ret'.args[1], f)
              /\ conn.session_id = ""
                     => conn'.session_id = Or(Carried(ret'.args[1], "session_id"),
                                              Carried(ret'.args[1], "project_id"))]_vars

\* a connection whose session id came from the project id of its first message, torn
\* down under that id, has just ignored a message naming another user, another
\* session and another project
C33_Witness ==
    /\ ret.op = "receive_from_client"
    /\ ret.args[1].payload.ids = Ids("u2", "s2", "p2")
    /\ conn.user_id = "u1" /\ conn.session_id = "p1" /\ conn.project_id = "p1"
    /\ conn.registered = "p1" /\ conn.unregistered = "p1"

\* what run_agent has sent to the client is a beginning of the handshake messages,
\* then at most one error message
HandshakeMessages == <<"setupComplete", "session_id">>

SentInOrder ==
    \E n \in 0 .. Len(HandshakeMessages) :
        \/ conn.sent = SubSeq(HandshakeMessages, 1, n)
        \/ conn.sent = Append(SubSeq(HandshakeMessages, 1, n), "error")

\* C34: before a user_id is known run_agent has done nothing (no session, no
\* registration, nothing sent); the connection is registered only with the session
\* obtained; setupComplete is sent only with the connection registered under the
\* session id, the session_id message only after setupComplete; and the live run and
\* its forwarder start only after both messages were sent.
C34_HandshakeOrder ==
    /\ [](conn.user_id = "" =>
              /\ conn.pc = "waiting" /\ ~conn.session /\ conn.sent = <<>>
              /\ conn.registered = "" /\ active_connections = EmptyDict)
    /\ [](conn.registered # "" => conn.session)
    /\ [](SentInOrder)
    /\ [](conn.pc = "running" \/ conn.forwarder # "none"
              => Len(conn.sent) >= 2 /\ SubSeq(conn.sent, 1, 2) = HandshakeMessages)
    /\ [][Len(conn'.sent) > Len(conn.sent) /\ conn'.sent[Len(conn'.sent)] # "error" =>
              /\ conn.session
              /\ conn.registered = conn.session_id
              /\ conn.session_id \in DOMAIN active_connections
              /\ active_connections[conn.session_id] = ConnWebSocket]_vars

\* the live run of a session created for the connection has started: the user's name
\* and language are stored, both handshake messages are sent and the connection is
\* registered under the created id
C34_Witness ==
    /\ conn.pc = "running"
    /\ conn.session_id = CreatedSessionId
    /\ conn.user_info = "stored"
    /\ conn.sent = HandshakeMessages
    /\ CreatedSessionId \in DOMAIN active_connections

----------------------------------------------------------------------------
(* Properties of request forwarding *)

\* the serial numbers of the messages received so far that are to be forwarded: JSON
\* objects that are no setup messages, and binary frames
RECURSIVE ToForward(_)
ToForward(n) ==
    IF n = 0 THEN <<>>
    ELSE IF conn.received[n].kind \in {"json", "bytes"}
         THEN Append(ToForward(n - 1), n) ELSE ToForward(n - 1)

\* what was forwarded is a beginning of what was to be forwarded, so nothing is
\* forwarded twice, out of order, or without being a non-setup message
ForwardedInOrder ==
    LET due == ToForward(Len(conn.received))
    IN  /\ Len(conn.live_request_queue) <= Len(due)
        /\ conn.live_request_queue = SubSeq(due, 1, Len(conn.live_request_queue))

\* the agent's live run is active
RunActive == conn.pc = "running"

Forwarded(n) == \E i \in 1 .. Len(conn.live_request_queue) : conn.live_request_queue[i] = n

Arrived(n) == Len(conn.received) >= n /\ conn.received[n].kind \in {"json", "bytes"}

\* C35: every non-setup message received (JSON object or binary frame), before the
\* session was ready or after, is in the live request queue eventually once the agent
\* run is active, unless the run ends; what is in the live request queue is in the
\* order received, each message once, and no setup message.
C35_EveryMessageForwarded ==
    /\ [](ForwardedInOrder)
    /\ \A n \in 1 .. MaxMessages :
           (Arrived(n) /\ RunActive) ~> (Forwarded(n) \/ ~RunActive)

\* no message up to the n-th was rejected by LiveRequest.model_validate
AllValidUpTo(n) == \A i \in 1 .. n : Arrived(i) => conn.received[i].valid

\* the same holds of the messages that the validation accepts, none rejected before
\* them
ValidMessagesForwarded ==
    /\ [](ForwardedInOrder)
    /\ \A n \in 1 .. MaxMessages :
           (Arrived(n) /\ AllValidUpTo(n) /\ RunActive) ~> (Forwarded(n) \/ ~RunActive)

----------------------------------------------------------------------------
(* Properties of run_agent's failures *)

RunAgentStepped == ret'.op = "run_agent"

\* a step of run_agent leaves the client's connection and the receive loop as they
\* are, and when run_agent is over the transcript save was attempted exactly if a
\* session object had been obtained
FailurePathSparesConnection ==
    /\ [](conn.pc = "over" => conn.saved = conn.session)
    /\ [][RunAgentStepped => conn'.open = conn.open /\ conn'.receiving = conn.receiving]_vars

\* C36: whatever raises inside run_agent is caught (run_agent does not end by raising)
\* and reported: when run_agent is over after a failure, the last message it sent to
\* the client is the error message; no step of run_agent closes the connection or
\* stops the receive loop; and the transcript save is attempted whenever the session
\* object had been obtained.
C36_FailuresReported ==
    /\ [](~conn.raised)
    /\ [](conn.pc = "over" /\ conn.failure # ""
              => conn.sent # <<>> /\ conn.sent[Len(conn.sent)] = "error")
    /\ FailurePathSparesConnection

\* the same with the client still connected when the failure is handled
FailuresReportedWhileConnected ==
    /\ [](conn.raised => ~conn.open)
    /\ [][RunAgentStepped /\ conn.pc = "except" /\ conn.open
              => conn'.sent = Append(conn.sent, "error") /\ conn'.pc = "finally"]_vars
    /\ [](conn.pc \in {"finally", "over"} /\ conn.failure # "" /\ ~conn.raised
              => conn.sent # <<>> /\ conn.sent[Len(conn.sent)] = "error")
    /\ FailurePathSparesConnection

----------------------------------------------------------------------------
(* Properties of the websocket endpoint's rate limit *)

\* the times of the accepted attempts of a log that are no older than the window at
\* the time `now`, oldest first
WithinWindow(log, now) ==
    LET counting(a) == a.accepted /\ now - a.time <= RATE_LIMIT_WINDOW
        sel == SelectSeq(log, counting)
    IN  [i \in 1 .. Len(sel) |-> sel[i].time]

\* the accepted attempts of a log made from the time `from` to a window's length later
AcceptedFrom(log, from) ==
    Cardinality({i \in 1 .. Len(log) :
                     /\ log[i].accepted
                     /\ log[i].time >= from
                     /\ log[i].time <= from + RATE_LIMIT_WINDOW})

\* the step is a connection attempt from the client address ret'.args[1]
EndpointStepped == ret'.op = "websocket_endpoint"

\* C37: per client ip, no window of 60 seconds holds more than 10 accepted attempts;
\* an attempt arriving with 10 accepted attempts of its ip no older than the window
\* is closed with code 1008, not accepted and not recorded, any other attempt is
\* accepted and recorded; accepted attempts older than the window do not count; and
\* an attempt changes nothing that is kept for another ip.
C37_RateLimitPerIp ==
    /\ [](\A ip \in ClientIps : \A i \in 1 .. Len(attempts[ip]) :
              AcceptedFrom(attempts[ip], attempts[ip][i].time) <= RATE_LIMIT_MAX)
    /\ [][EndpointStepped =>
              LET ip == ret'.args[1]
                  counted == WithinWindow(attempts[ip], current_time)
              IN  /\ IF Len(counted) >= RATE_LIMIT_MAX
                     THEN /\ ret'.msg = "closed" /\ ret'.args[2] = PolicyViolation
                          /\ rate_limit_store'[ip] = counted
                          /\ attempts'[ip] = Append(attempts[ip],
                                 [time |-> current_time, accepted |-> FALSE])
                     ELSE /\ ret'.msg = "accepted"
                          /\ rate_limit_store'[ip] = Append(counted, current_time)
                          /\ attempts'[ip] = Append(attempts[ip],
                                 [time |-> current_time, accepted |-> TRUE])
                  /\ \A other \in ClientIps \ {ip} :
                         /\ rate_limit_store'[other] = rate_limit_store[other]
                         /\ attempts'[other] = attempts[other]]_vars

\* ip1 made ten attempts at time 0, all accepted, and an eleventh that was refused,
\* and is accepted again 61 seconds later; ip2 was accepted at time 0 as well
C37_Witness ==
    /\ ret.op = "websocket_endpoint" /\ ret.args[1] = "ip1" /\ ret.msg = "accepted"
    /\ current_time = RATE_LIMIT_WINDOW + 1
    /\ Len(attempts["ip1"]) = RATE_LIMIT_MAX + 2
    /\ \A i \in 1 .. RATE_LIMIT_MAX :
           attempts["ip1"][i] = [time |-> 0, accepted |-> TRUE]
    /\ attempts["ip1"][RATE_LIMIT_MAX + 1] = [time |-> 0, accepted |-> FALSE]
    /\ attempts["ip1"][RATE_LIMIT_MAX + 2] =
           [time |-> RATE_LIMIT_WINDOW + 1, accepted |-> TRUE]
    /\ attempts["ip2"] = <<[time |-> 0, accepted |-> TRUE]>>
    /\ rate_limit_store["ip1"] = <<RATE_LIMIT_WINDOW + 1>>

----------------------------------------------------------------------------
(* Properties of the company-name extraction *)

\* the text _extract_company_facts searches: the stage output, a space, the research
ExtractionText(st) ==
    Get(st, "company_context", PyStr("")).v \o " "
        \o Get(st, "company_research_results", PyStr("")).v

CompanyNames == {"NxtWave Disruptive Technologies", "Nestwave"}

\* the recorder ran for the company stage, which had a non-empty output
CompanyRecorded ==
    /\ RecorderReturned("CompanyContext")
    /\ Truthy(Get(state, "company_context", PyStr("")))

\* the step stored every extracted fact in extracted_data
FactsStored(facts) ==
    \A k \in DOMAIN facts : k \in DOMAIN Extracted(state') /\ Extracted(state')[k] = facts[k]

\* C38: for every input text (stage output plus research results) that contains
\* "NxtWave" or "Nestwave", the facts extracted for the company stage contain
\* company_name, equal to "NxtWave Disruptive Technologies" or "Nestwave"; for a text
\* that contains neither, company_name is absent.
C38_CompanyNameExtracted ==
    [][CompanyRecorded =>
          LET text == ExtractionText(state)
              facts == FactsFor(state, "CompanyContext").facts
          IN  /\ ~ret'.raised
              /\ FactsStored(facts)
              /\ IF Contains(text, "NxtWave") \/ Contains(text, "Nestwave")
                 THEN /\ "company_name" \in DOMAIN facts
                      /\ facts["company_name"] \in CompanyNames
                 ELSE "company_name" \notin DOMAIN facts]_vars

\* what the extraction does: the full name or "Nestwave" in the text selects that
\* name, the full name first; a text with neither of the two has no company_name,
\* "NxtWave" in it or not
CompanyNameWhenNamedInFull ==
    [][CompanyRecorded =>
          LET text == ExtractionText(state)
              facts == FactsFor(state, "CompanyContext").facts
          IN  /\ ~ret'.raised
              /\ FactsStored(facts)
              /\ IF Contains(text, "NxtWave Disruptive Technologies")
                 THEN /\ "company_name" \in DOMAIN facts
                      /\ facts["company_name"] = "NxtWave Disruptive Technologies"
                 ELSE IF Contains(text, "Nestwave")
                 THEN /\ "company_name" \in DOMAIN facts
                      /\ facts["company_name"] = "Nestwave"
                 ELSE "company_name" \notin DOMAIN facts]_vars

----------------------------------------------------------------------------
(* Properties of the narrative summaries *)

\* the fact that holds the summary of a narrative stage
SummaryKey(a) == IF a = "ProblemStatement" THEN "problem_summary" ELSE "solution_summary"

\* text starts with part
IsPrefix(part, text) == Len(part) <= Len(text) /\ SubSeq(text, 1, Len(part)) = part

\* what precedes the first full stop of text: all of it when there is none
BeforeFirstStop(text) ==
    LET stops == {i \in 1..Len(text) : SubSeq(text, i, i) = "."}
    IN  IF stops = {} THEN text
        ELSE SubSeq(text, 1, (CHOOSE i \in stops : \A k \in stops : i <= k) - 1)

HasStop(text) == \E i \in 1..Len(text) : SubSeq(text, i, i) = "."

\* C39: for the narrative stages (ProblemStatement, SolutionVision) and every
\* non-empty text output, the extracted summary (problem_summary / solution_summary)
\* is present, is at most 150 characters long, contains no '.', and is a prefix of the
\* whitespace-trimmed text that precedes the first '.' of the output.
C39_NarrativeSummary ==
    [][\A a \in NarrativeStages :
          LET output == Get(state, output_key_map[a], PyStr(""))
              facts == FactsFor(state, a).facts
          IN  (RecorderReturned(a) /\ output.t = "str" /\ output.v # "") =>
                  /\ ~ret'.raised
                  /\ SummaryKey(a) \in DOMAIN facts
                  /\ Len(facts[SummaryKey(a)]) <= 150
                  /\ ~HasStop(facts[SummaryKey(a)])
                  /\ IsPrefix(facts[SummaryKey(a)], Strip(BeforeFirstStop(output.v)))
                  /\ SummaryKey(a) \in DOMAIN Extracted(state')
                  /\ Extracted(state')[SummaryKey(a)] = facts[SummaryKey(a)]]_vars

\* SolutionVision was recorded with an output whose first sentence is longer than 150
\* characters: the summary is its first 150 characters
C39_Witness ==
    /\ ret.op = "stage_transition_callback"
    /\ ret.args[1] = "SolutionVision"
    /\ Get(state, "solution_vision", PyStr("")) = PyStr(LongNarrative)
    /\ Len(Strip(BeforeFirstStop(LongNarrative))) > 150
    /\ "solution_summary" \in DOMAIN Extracted(state)
    /\ Extracted(state)["solution_summary"] = SubSeq(LongNarrative, 1, 150)

====
